---- MODULE Spec2Model ----
(***************************************************************************)
(* pytest-subtests: the subtest record (SubTestReport), its description,   *)
(* transport form and status classification, and the fixture scope         *)
(* (_SubTestContextManager) run inside one enclosing test.                 *)
(* Source: src/src/pytest_subtests/plugin.py                               *)
(***************************************************************************)
EXTENDS Integers, Sequences, FiniteSets, Bags, TLC

(***************************************************************************)
(* Bounds of the model.                                                    *)
(***************************************************************************)
\* largest number of keyword parameters given to one subtests.test(...) call
MaxParams == 2
\* largest number of scopes one enclosing test opens
MaxScopes == 3
\* largest --maxfail threshold of the session (0 = no threshold)
MaxFail == 2
\* largest number of self.subTest(...) scopes one TestCase method opens
MaxSubTests == 3
\* largest number of pytest_configure calls (sessions started in the process)
MaxSessions == 2

(***************************************************************************)
(* Python values that occur as label and as parameter values.              *)
(***************************************************************************)
PyNone == [type |-> "NoneType", s |-> "", items |-> <<>>]
PyStr(s) == [type |-> "str", s |-> s, items |-> <<>>]
PyInt(n) == [type |-> "int", s |-> "", items |-> <<n>>]
PyTuple(xs) == [type |-> "tuple", s |-> "", items |-> xs]
PyList(xs) == [type |-> "list", s |-> "", items |-> xs]

RECURSIVE JoinInts(_)
\* ", ".join(repr(i) for i in xs) for a sequence of ints
JoinInts(xs) ==
    IF xs = <<>> THEN ""
    ELSE IF Len(xs) = 1 THEN ToString(xs[1])
    ELSE ToString(xs[1]) \o ", " \o JoinInts(Tail(xs))

\* repr(v), the !r conversion of the description's f-string
Repr(v) ==
    CASE v.type = "NoneType" -> "None"
      [] v.type = "str" -> "'" \o v.s \o "'"
      [] v.type = "int" -> ToString(v.items[1])
      [] v.type = "tuple" ->
            IF Len(v.items) = 1 THEN "(" \o ToString(v.items[1]) \o ",)"
            ELSE "(" \o JoinInts(v.items) \o ")"
      [] v.type = "list" -> "[" \o JoinInts(v.items) \o "]"

\* The parameter names of the model, in ascending (code point) order.
KeyOrder == <<"a", "i", "x">>
KeyRank(k) == CHOOSE n \in 1..Len(KeyOrder) : KeyOrder[n] = k
\* k1 < k2 as Python compares the two strings
KeyLess(k1, k2) == KeyRank(k1) < KeyRank(k2)

\* The labels a scope is opened with: absent, a string, the empty string, a
\* non-string object.
Labels == {PyNone, PyStr("custom"), PyStr(""), PyInt(7)}
\* The parameter values a scope is opened with.
ParamValues == {PyInt(1), PyStr("s"), PyTuple(<<1, 2>>)}

Range(f) == {f[x] : x \in DOMAIN f}

\* A dict of keyword parameters: (key, value) pairs in insertion order, the
\* keys distinct.
IsDict(kw) == \A m, n \in 1..Len(kw) : kw[m].k = kw[n].k => m = n
ParamDicts ==
    {kw \in UNION {[1..n -> [k : Range(KeyOrder), v : ParamValues]] : n \in 0..MaxParams} :
        IsDict(kw)}

(***************************************************************************)
(* SubTestContext                                                          *)
(***************************************************************************)
SubTestContext(msg, kwargs) == [msg |-> msg, kwargs |-> kwargs]
Contexts == {SubTestContext(m, kw) : m \in Labels, kw \in ParamDicts}

RECURSIVE Sorted(_)
\* sorted(kwargs.items()): ascending by key (the keys are distinct)
Sorted(kw) ==
    IF kw = <<>> THEN <<>>
    ELSE LET m == CHOOSE n \in 1..Len(kw) :
                      \A j \in 1..Len(kw) : j # n => KeyLess(kw[n].k, kw[j].k)
             rest == [j \in 1..(Len(kw) - 1) |-> IF j < m THEN kw[j] ELSE kw[j + 1]]
         IN  <<kw[m]>> \o Sorted(rest)

RECURSIVE Join(_, _)
\* sep.join(parts)
Join(sep, parts) ==
    IF parts = <<>> THEN ""
    ELSE IF Len(parts) = 1 THEN parts[1]
    ELSE parts[1] \o sep \o Join(sep, Tail(parts))

\* a slip: the label is tested for truth, not for being a string
label_part_if_truthy(msg) ==
    IF msg.type = "str" /\ msg.s # "" THEN <<"[" \o msg.s \o "]">>
    ELSE IF msg.type = "int" /\ msg.items[1] # 0 THEN <<"[" \o Repr(msg) \o "]">>
    ELSE <<>>

\* sub_test_description: if isinstance(self.context.msg, str): parts.append(...)
label_part(msg) ==
    IF msg.type = "str" THEN <<"[" \o msg.s \o "]">> ELSE <<>>

\* a slip: the parameters are listed in the order they were given
params_part_unsorted(kwargs) ==
    LET params_desc ==
            Join(", ", [n \in 1..Len(kwargs) |-> kwargs[n].k \o "=" \o Repr(kwargs[n].v)])
    IN  IF kwargs # <<>> THEN <<"(" \o params_desc \o ")">> ELSE <<>>


\* sub_test_description: if self.context.kwargs: parts.append(...)
params_part(kwargs) ==
    LET items == Sorted(kwargs)
        params_desc ==
            Join(", ", [n \in 1..Len(items) |-> items[n].k \o "=" \o Repr(items[n].v)])
    IN  IF kwargs # <<>> THEN <<"(" \o params_desc \o ")">> ELSE <<>>

\* SubTestReport.sub_test_description, on the report's context
sub_test_description(context) ==
    LET joined == Join(" ", label_part(context.msg) \o params_part(context.kwargs))
    IN  IF joined = "" THEN "(<subtest>)" ELSE joined

(***************************************************************************)
(* Reports.  A report is its class and its attribute dictionary (__dict__):*)
(* hasattr(report, name) is name \in DOMAIN report.dict.                   *)
(***************************************************************************)
\* Python's None as the result of a hook: "not mine"
None == <<>>

Whens == {"setup", "call", "teardown"}
Outcomes == {"passed", "failed", "skipped"}

\* TestReport(when=..., outcome=..., sections=...), as the host's makereport
\* builds it; wasxfail is set by the host only for an expected failure.
TestReport(when, outcome, wasxfail) ==
    [cls |-> "TestReport",
     dict |-> IF wasxfail
              THEN [when |-> when, outcome |-> outcome, sections |-> <<>>,
                    wasxfail |-> "reason"]
              ELSE [when |-> when, outcome |-> outcome, sections |-> <<>>]]

hasattr(report, name) == name \in DOMAIN report.dict
\* report.<name> = value
setattr(report, name, value) ==
    [report EXCEPT !.dict =
        (name :> value) @@ [k \in DOMAIN report.dict \ {name} |-> report.dict[k]]]
isinstance(report, cls) == report.cls = cls

\* TestReport._to_json: the attribute dictionary, copied
TestReport_to_json(report) == report.dict
\* TestReport._from_json as a classmethod of cls: cls(**reportdict), every
\* key of the mapping becomes an attribute
TestReport_from_json(cls, reportdict) == [cls |-> cls, dict |-> reportdict]

\* attr.asdict on one value, recursively: tuples (and sets) become lists
asdict_anything(v) == IF v.type = "tuple" THEN PyList(v.items) ELSE v
\* attr.asdict(context)
asdict(context) ==
    [msg |-> asdict_anything(context.msg),
     kwargs |-> [n \in 1..Len(context.kwargs) |->
                    [k |-> context.kwargs[n].k,
                     v |-> asdict_anything(context.kwargs[n].v)]]]

\* a slip: the context attribute is left in the mapping
SubTestReport_to_json_keeps_context(report) ==
    LET data == TestReport_to_json(report)
    IN  ("_subtest.context" :> asdict(report.dict["context"]))
            @@ ("_report_type" :> "SubTestReport")
            @@ [k \in DOMAIN data \ {"_subtest.context", "_report_type"} |-> data[k]]


\* SubTestReport._to_json
SubTestReport_to_json(report) ==
    LET data == TestReport_to_json(report)
        deleted == [k \in DOMAIN data \ {"context"} |-> data[k]]
    IN  ("_subtest.context" :> asdict(report.dict["context"]))
            @@ ("_report_type" :> "SubTestReport")
            @@ [k \in DOMAIN deleted \ {"_subtest.context", "_report_type"} |-> deleted[k]]

\* SubTestReport._from_json
SubTestReport_from_json(reportdict) ==
    LET report == TestReport_from_json("SubTestReport", reportdict)
        context_data == reportdict["_subtest.context"]
    IN  setattr(report, "context",
                SubTestContext(context_data.msg, context_data.kwargs))

\* a slip: the rebuilt record loses the expected-failure marker
from_test_report_without_marker(test_report) ==
    TestReport_from_json("SubTestReport",
        [k \in DOMAIN TestReport_to_json(test_report) \ {"wasxfail"} |->
            TestReport_to_json(test_report)[k]])

\* SubTestReport._from_test_report
from_test_report(test_report) ==
    TestReport_from_json("SubTestReport", TestReport_to_json(test_report))

\* a slip: every report is claimed, not only the subtest records
pytest_report_to_serializable_any(report) ==
    IF isinstance(report, "SubTestReport") THEN SubTestReport_to_json(report)
    ELSE ("_report_type" :> report.cls) @@ TestReport_to_json(report)

\* pytest_report_to_serializable
pytest_report_to_serializable(report) ==
    IF isinstance(report, "SubTestReport") THEN SubTestReport_to_json(report) ELSE None

\* data.get(key): None when the key is missing
get(data, key) == IF key \in DOMAIN data THEN data[key] ELSE "None"

\* pytest_report_from_serializable
pytest_report_from_serializable(data) ==
    IF get(data, "_report_type") = "SubTestReport"
    THEN SubTestReport_from_json(data)
    ELSE None

\* a slip: the option is not looked at
shortletter_keeps(noletter, short) == short

\* short = "" if config.option.no_subtests_shortletter else short
shortletter(noletter, short) == IF noletter THEN "" ELSE short

\* a slip: the marker is not looked at first, the plain rules apply
xfail_status_as_plain(outcome) ==
    IF outcome = "skipped" THEN <<"skipped", "-", "SUBSKIP">>
    ELSE IF outcome = "passed" THEN <<"passed", ",", "SUBPASS">>
    ELSE None

\* a slip: a marked record that failed is classified as a failure
xfail_status_classifies_failed(outcome) ==
    IF outcome = "skipped" THEN <<"xfailed", "y", "SUBXFAIL">>
    ELSE IF outcome = "passed" THEN <<"xpassed", "Y", "SUBXPASS">>
    ELSE <<"failed", "u", "SUBFAIL">>


\* pytest_report_teststatus, the branch of a report that has wasxfail:
\* (category, short, status), or None to pass the report to the next hook
xfail_status(outcome) ==
    IF outcome = "skipped" THEN <<"xfailed", "y", "SUBXFAIL">>
    ELSE IF outcome = "passed" THEN <<"xpassed", "Y", "SUBXPASS">>
    ELSE None

\* a slip: every outcome of a subtest gets a "subtests" category
plain_status_all_namespaced(outcome) ==
    IF outcome = "passed" THEN <<"subtests " \o outcome, ",", "SUBPASS">>
    ELSE IF outcome = "skipped" THEN <<"subtests " \o outcome, "-", "SUBSKIP">>
    ELSE IF outcome = "failed" THEN <<"subtests " \o outcome, "u", "SUBFAIL">>
    ELSE None

\* a slip: a passed subtest is counted with the passed tests
plain_status_passed_ordinary(outcome) ==
    IF outcome = "passed" THEN <<outcome, ",", "SUBPASS">>
    ELSE IF outcome = "skipped" THEN <<outcome, "-", "SUBSKIP">>
    ELSE IF outcome = "failed" THEN <<outcome, "u", "SUBFAIL">>
    ELSE None

\* pytest_report_teststatus, the branches of a report without wasxfail:
\* (category, short, status)
plain_status(outcome) ==
    IF outcome = "passed" THEN <<"subtests " \o outcome, ",", "SUBPASS">>
    ELSE IF outcome = "skipped" THEN <<outcome, "-", "SUBSKIP">>
    ELSE IF outcome = "failed" THEN <<outcome, "u", "SUBFAIL">>
    ELSE None

\* a slip: the phase of the report is not looked at
pytest_report_teststatus_any_phase(report, noletter) ==
    IF ~isinstance(report, "SubTestReport")
    THEN None
    ELSE
      LET outcome == report.dict["outcome"]
          description == sub_test_description(report.dict["context"])
      IN  IF hasattr(report, "wasxfail")
          THEN LET x == xfail_status(outcome)
               IN  IF x = None THEN None
                   ELSE <<"subtests " \o x[1], shortletter(noletter, x[2]),
                          description \o " " \o x[3]>>
          ELSE LET r == plain_status(outcome)
               IN  IF r = None THEN None
                   ELSE <<r[1], shortletter(noletter, r[2]), description \o " " \o r[3]>>

\* a slip: a record whose context is empty is left to the host
pytest_report_teststatus_unless_anonymous(report, noletter) ==
    IF report.dict["when"] # "call" \/ ~isinstance(report, "SubTestReport")
    THEN None
    ELSE
      LET outcome == report.dict["outcome"]
          description == sub_test_description(report.dict["context"])
      IN  IF description = "(<subtest>)" THEN None
          ELSE IF hasattr(report, "wasxfail")
          THEN LET x == xfail_status(outcome)
               IN  IF x = None THEN None
                   ELSE <<"subtests " \o x[1], shortletter(noletter, x[2]),
                          description \o " " \o x[3]>>
          ELSE LET r == plain_status(outcome)
               IN  IF r = None THEN None
                   ELSE <<r[1], shortletter(noletter, r[2]), description \o " " \o r[3]>>


\* pytest_report_teststatus; noletter is config.option.no_subtests_shortletter
pytest_report_teststatus(report, noletter) ==
    IF report.dict["when"] # "call" \/ ~isinstance(report, "SubTestReport")
    THEN None
    ELSE
      LET outcome == report.dict["outcome"]
          description == sub_test_description(report.dict["context"])
      IN  IF hasattr(report, "wasxfail")
          THEN LET x == xfail_status(outcome)
               IN  IF x = None THEN None
                   ELSE <<"subtests " \o x[1], shortletter(noletter, x[2]),
                          description \o " " \o x[3]>>
          ELSE LET r == plain_status(outcome)
               IN  IF r = None THEN None
                   ELSE <<r[1], shortletter(noletter, r[2]), description \o " " \o r[3]>>

\* The subtest record built from a base report and a context.
SubTestReport(when, outcome, wasxfail, context) ==
    setattr(from_test_report(TestReport(when, outcome, wasxfail)), "context", context)

(***************************************************************************)
(* State.                                                                  *)
(***************************************************************************)
VARIABLES
    \* configuration of the run
    no_subtests_shortletter, \* config.option.no_subtests_shortletter
    maxfail,                 \* the session's stop-after-M-failures threshold
    capture,                 \* config.getoption("capture")
    capture_fixture,         \* capman._capture_fixture is set (capsys/capfd)
    capman,                  \* the host's capture manager plugin is registered
    logging_plugin,          \* the host's logging plugin is registered
    xfailed,                 \* the xfail mark of the enclosing test
    \* the session
    testsfailed,             \* session.testsfailed
    shouldfail,              \* session.shouldfail is truthy
    \* the enclosing test
    pc,                      \* where the test function is
    cm,                      \* the _SubTestContextManager that is open, or None
    \* what the run has done so far
    entered,                 \* number of __enter__ calls
    raised,                  \* bag: what the bodies of the exited scopes raised
    last_exit,               \* the last __exit__ call: its input and its result
    logged,                  \* bag: the kinds of the reports given to logreport
    last_report,             \* the last report given to logreport
    stats,                   \* the terminal reporter's count per category
    interactions,            \* number of pytest_exception_interact calls
    last_sub,                \* the last scope completion handled: call info, record, hook
    outside_raised,          \* what code outside every scope raised
    streams,                 \* who receives stdout and stderr, innermost last
    handlers,                \* the log handlers that are attached
    \* the hooks applied to one report
    hpc,                     \* which hooks have run
    hReport,                 \* the report
    hDescription,            \* its sub_test_description()
    hStatus,                 \* the result of pytest_report_teststatus
    hData,                   \* the result of pytest_report_to_serializable
    hWire,                   \* the mapping the coordinating process receives
    hRestored,               \* the result of pytest_report_from_serializable
    hRestoredStatus,         \* the status of the rebuilt report
    \* the process: interpreter, TestCaseFunction's attributes, terminal tables
    py311,                   \* sys.version_info >= (3, 11)
    addSkip,                 \* TestCaseFunction.addSkip
    originaladdSkip,         \* TestCaseFunction._originaladdSkip
    addSubTest,              \* TestCaseFunction.addSubTest
    failfast,                \* TestCaseFunction.failfast
    KNOWN_TYPES,             \* _pytest.terminal.KNOWN_TYPES
    color_for_type,          \* _pytest.terminal._color_for_type
    configures,              \* number of pytest_configure calls
    unconfigures,            \* number of pytest_unconfigure calls
    last_hook,               \* the last of the two that was called
    \* one unittest.TestCase method run by the host (a TestCaseFunction)
    upc,                     \* where TestCase.run is
    instance_outcome,        \* self.instance._outcome
    excinfo,                 \* self._excinfo, the exceptions queued for makereport
    ubodies,                 \* what the bodies of the subTest scopes did, in order
    uended,                  \* how the test method ended
    fpos,                    \* TestCase.run's position in outcome.skipped / errors
    urecords,                \* per subTest scope: the outcomes of its records
    skip_calls,              \* addSkip callbacks received for the test itself
    skip_fired               \* _originaladdSkip calls made for the test itself

cfgVars == <<no_subtests_shortletter, maxfail, capture, capture_fixture, capman,
             logging_plugin,
             xfailed>>
hostVars == <<testsfailed, shouldfail, logged, last_report, stats>>
runVars == <<pc, cm, entered, raised, last_exit, interactions, last_sub, outside_raised, streams,
             handlers>>
hookVars == <<hpc, hReport, hDescription, hStatus, hData, hWire, hRestored,
              hRestoredStatus>>
processVars == <<py311, addSkip, originaladdSkip, addSubTest, failfast, KNOWN_TYPES,
                 color_for_type, configures, unconfigures, last_hook>>
caseVars == <<upc, instance_outcome, excinfo, ubodies, uended, fpos, urecords, skip_calls,
              skip_fired>>
adapterVars == <<processVars, caseVars>>
vars == <<cfgVars, hostVars, runVars, hookVars, adapterVars>>

\* a hook variable that has not been computed yet
Unset == <<"unset">>

(***************************************************************************)
(* The host (pytest), as far as the plugin calls it.                       *)
(***************************************************************************)
\* What the body of a scope, or code outside the scopes, raises.
Excs == {"AssertionError", "RuntimeError", "Skipped", "XFailed"}
NoExc == "None"

\* make_call_info(exc_info, start=..., stop=..., duration=..., when=when)
make_call_info(exc_info, when) == [excinfo |-> exc_info, when |-> when]

\* The xfail mark of the enclosing test, as the host evaluated it.
XfailMarks == {"None", "xfail", "strict"}

\* ihook.pytest_runtest_makereport(item=..., call=call_info): the host's
\* report.  The base outcome is passed without an exception, skipped for a
\* skip, failed otherwise; pytest.xfail() gives skipped with wasxfail; under
\* an xfail mark of the test (xfailed) every other exception gives skipped
\* with wasxfail, and a call that raised nothing gives passed with wasxfail,
\* or failed when the mark is strict.
pytest_runtest_makereport(call_info, xfailed_mark) ==
    LET exc == call_info.excinfo
        when == call_info.when
        base == IF exc = NoExc THEN "passed"
                ELSE IF exc \in {"Skipped", "SkipTest"} THEN "skipped"
                ELSE "failed"
    IN  IF exc = "XFailed" THEN TestReport(when, "skipped", TRUE)
        ELSE IF base # "skipped" /\ xfailed_mark # "None"
        THEN IF exc # NoExc THEN TestReport(when, "skipped", TRUE)
             ELSE IF when # "call" THEN TestReport(when, base, FALSE)
             ELSE IF xfailed_mark = "strict" THEN TestReport(when, "failed", FALSE)
             ELSE TestReport(when, "passed", TRUE)
        ELSE TestReport(when, base, FALSE)

\* check_interactive_exception(call_info, report)
check_interactive_exception(call_info, report) ==
    /\ call_info.excinfo # NoExc
    /\ ~hasattr(report, "wasxfail")
    /\ call_info.excinfo \notin {"Skipped", "SkipTest"}

\* a slip: the hook is called for every scope
exception_interact_always(call_info, sub_report) ==
    [call |-> call_info, report |-> sub_report]

\* if check_interactive_exception(call_info, sub_report):
\*     ihook.pytest_exception_interact(node=..., call=call_info, report=sub_report)
\* The arguments of the hook call, None when it is not called.
exception_interact(call_info, sub_report) ==
    IF check_interactive_exception(call_info, sub_report)
    THEN [call |-> call_info, report |-> sub_report]
    ELSE None

\* The status of a report as the terminal sees it: the plugin's hook runs
\* first (tryfirst); on None the host's own classification applies.
TestStatusCategory(report, noletter) ==
    LET res == pytest_report_teststatus(report, noletter)
    IN  IF res # None THEN res[1]
        ELSE IF hasattr(report, "wasxfail") /\ report.dict["outcome"] = "skipped" THEN "xfailed"
        ELSE IF hasattr(report, "wasxfail") /\ report.dict["outcome"] = "passed" THEN "xpassed"
        ELSE IF report.dict["when"] = "call" THEN report.dict["outcome"]
        ELSE IF report.dict["outcome"] = "passed" THEN ""
        ELSE IF report.dict["outcome"] = "failed" THEN "error"
        ELSE "skipped"

Categories == {"", "passed", "failed", "skipped", "error", "xfailed", "xpassed",
               "subtests passed", "subtests failed", "subtests skipped",
               "subtests xfailed", "subtests xpassed"}

\* The effect of a logged report on the host: the terminal's counters ...
StatsAfter(st, report, noletter) ==
    [st EXCEPT ![TestStatusCategory(report, noletter)] = @ + 1]
\* ... and the session's failure count and stop request (--maxfail).
CountsAsFailure(report) ==
    report.dict["outcome"] = "failed" /\ ~hasattr(report, "wasxfail")
FailedAfter(n, report) == IF CountsAsFailure(report) THEN n + 1 ELSE n
ShouldFailAfter(sf, n, report, mf) ==
    sf \/ (CountsAsFailure(report) /\ mf > 0 /\ n + 1 >= mf)

(***************************************************************************)
(* The capture collectors.                                                 *)
(***************************************************************************)
\* a slip: the capture fixture of the user is not looked at
capturing_output_ignores_fixture(option, capture_fixture_active) ==
    IF option = "sys" THEN "SysCapture"
    ELSE IF option = "fd" THEN "FDCapture"
    ELSE "None"

\* capturing_output, on entry: the capture fixture the scope starts, if any
capturing_output(option, capture_fixture_active) ==
    IF option = "sys" /\ ~capture_fixture_active THEN "SysCapture"
    ELSE IF option = "fd" /\ ~capture_fixture_active THEN "FDCapture"
    ELSE "None"

\* Who receives what the body of a scope writes: the capture the scope
\* started; else whatever was in effect before entry, that is the user's
\* capsys/capfd fixture, the terminal (capture disabled), or the capture of
\* the enclosing test.
OutputSink(fixture, capture_fixture_active, option) ==
    IF fixture # "None" THEN "scope"
    ELSE IF capture_fixture_active THEN "capture fixture"
    ELSE IF option = "no" THEN "terminal"
    ELSE "test capture"

\* a slip: a handler is attached whether or not the plugin is there
capturing_logs_always(plugin) == "CapturedLogs"

\* capturing_logs, on entry: the collector the scope gets
capturing_logs(plugin) == IF plugin THEN "CapturedLogs" ELSE "NullCapturedLogs"

\* capturing_output, on release: the Captured snapshot, given what the body
\* wrote to the two streams
Captured(fixture, out, err) ==
    IF fixture # "None" THEN [out |-> out, err |-> err] ELSE [out |-> "", err |-> ""]

\* Captured.update_report
Captured_update_report(captured, sections) ==
    sections
      \o (IF captured.out # "" THEN <<<<"Captured stdout call", captured.out>>>> ELSE <<>>)
      \o (IF captured.err # "" THEN <<<<"Captured stderr call", captured.err>>>> ELSE <<>>)

\* a slip: the log section is left out when nothing was logged
Logs_update_report_unless_empty(logs, text, sections) ==
    IF logs = "CapturedLogs" /\ text # ""
    THEN sections \o <<<<"Captured log call", text>>>>
    ELSE sections


\* CapturedLogs.update_report and NullCapturedLogs.update_report
Logs_update_report(logs, text, sections) ==
    IF logs = "CapturedLogs" THEN sections \o <<<<"Captured log call", text>>>>
    ELSE sections

(***************************************************************************)
(* One enclosing test that uses the subtests fixture.                      *)
(***************************************************************************)
\* The contexts the test opens its scopes with.
ScopeContexts ==
    {SubTestContext(PyStr("custom"), <<[k |-> "i", v |-> PyInt(1)]>>),
     SubTestContext(PyNone, <<>>)}

\* What the body of a scope does: what it writes to stdout and stderr, what
\* it logs, and what it raises in the end.
Body(exc, out, err, log) == [exc |-> exc, out |-> out, err |-> err, log |-> log]
\* The bodies of the test: silent ones that end in every way, and ones that
\* write and log before they return or fail an assertion.
Bodies ==
    {Body(exc, "", "", "") : exc \in {NoExc} \cup Excs}
        \cup {Body(exc, "o", "e", "l") : exc \in {NoExc, "AssertionError"}}

\* The kind of a report: class, phase, outcome, expected-failure marker.
Kind(report) ==
    <<report.cls, report.dict["when"], report.dict["outcome"], hasattr(report, "wasxfail")>>
SubKind(outcome, wasxfail) == <<"SubTestReport", "call", outcome, wasxfail>>
TestKind(when, outcome) == <<"TestReport", when, outcome, FALSE>>

\* the values of --capture; without the capture plugin the option does not
\* exist and getoption("capture", None) is None
CaptureOptions == {"fd", "sys", "no", "tee-sys"}

\* Who receives what the test writes before it opens a scope, innermost
\* last: the terminal, the capture of the test, the user's capsys/capfd.
StreamsOfTest(option, capture_fixture_active) ==
    <<"terminal">>
        \o (IF option \in {"fd", "sys", "tee-sys"} THEN <<"test capture">> ELSE <<>>)
        \o (IF capture_fixture_active THEN <<"capture fixture">> ELSE <<>>)
\* The log handlers attached before the test opens a scope.
HandlersOfTest(plugin) == IF plugin THEN {"logging-plugin"} ELSE {}

InitConfig ==
    /\ no_subtests_shortletter = FALSE
    /\ maxfail \in 0..MaxFail
    /\ capman \in BOOLEAN
    /\ capture \in (IF capman THEN CaptureOptions ELSE {"None"})
    /\ capture_fixture \in (IF capman THEN BOOLEAN ELSE {FALSE})
    /\ logging_plugin \in BOOLEAN
    /\ xfailed = "None"

InitHooksIdle ==
    /\ hpc = "idle"
    /\ hReport = None
    /\ hDescription = Unset
    /\ hStatus = Unset
    /\ hData = Unset
    /\ hWire = Unset
    /\ hRestored = Unset
    /\ hRestoredStatus = Unset

\* The terminal's tables as the host defines them.
HostKnownTypes ==
    <<"failed", "passed", "skipped", "deselected", "xfailed", "xpassed", "warnings",
      "error">>
HostColors ==
    [t \in {"failed", "error", "warnings", "passed"} |->
        CASE t = "failed" -> "red"
          [] t = "error" -> "red"
          [] t = "warnings" -> "yellow"
          [] t = "passed" -> "green"]

\* The process before any pytest_configure call.
InitProcess ==
    /\ addSkip = "addSkip"
    /\ originaladdSkip = "absent"
    /\ addSubTest = "absent"
    /\ failfast = "absent"
    /\ KNOWN_TYPES = HostKnownTypes
    /\ color_for_type = HostColors
    /\ configures = 0
    /\ unconfigures = 0
    /\ last_hook = "none"

\* No TestCase method is run.
InitCaseIdle ==
    /\ upc = "off"
    /\ instance_outcome = None
    /\ excinfo = None
    /\ ubodies = <<>>
    /\ uended = "no"
    /\ fpos = 0
    /\ urecords = [i \in 1..MaxSubTests |-> <<>>]
    /\ skip_calls = 0
    /\ skip_fired = 0

InitAdapterIdle ==
    /\ py311 = TRUE
    /\ InitProcess
    /\ InitCaseIdle

\* The session has run earlier tests without reaching the threshold; the
\* fixture has been built for this test.
Init ==
    /\ InitConfig
    /\ InitAdapterIdle
    /\ testsfailed \in (IF maxfail = 0 THEN {0} ELSE 0..(maxfail - 1))
    /\ shouldfail = FALSE
    /\ pc = "setup"
    /\ cm = None
    /\ entered = 0
    /\ raised = EmptyBag
    /\ last_exit = None
    /\ logged = EmptyBag
    /\ last_report = None
    /\ stats = [c \in Categories |-> 0]
    /\ interactions = 0
    /\ last_sub = None
    /\ outside_raised = NoExc
    /\ streams = StreamsOfTest(capture, capture_fixture)
    /\ handlers = HandlersOfTest(logging_plugin)
    /\ InitHooksIdle

\* ihook.pytest_runtest_logreport(report=report): session and terminal see
\* the report.
pytest_runtest_logreport(report) ==
    /\ logged' = logged (+) SetToBag({Kind(report)})
    /\ last_report' = report
    /\ stats' = StatsAfter(stats, report, no_subtests_shortletter)
    /\ testsfailed' = FailedAfter(testsfailed, report)
    /\ shouldfail' = ShouldFailAfter(shouldfail, testsfailed, report, maxfail)

\* The host finishes the setup phase of the test.
Setup ==
    /\ pc = "setup"
    /\ pc' = "test"
    /\ pytest_runtest_logreport(TestReport("setup", "passed", FALSE))
    /\ UNCHANGED <<cfgVars, streams, handlers, cm, entered, raised, last_exit, interactions, last_sub,
                   outside_raised, hookVars, adapterVars>>

\* with subtests.test(msg, **kwargs): SubTests.test and __enter__
Enter(msg, kwargs) ==
    /\ pc = "test"
    /\ entered < MaxScopes
    /\ cm' = [msg |-> msg, kwargs |-> kwargs,
              exc_info |-> NoExc,
              fixture |-> capturing_output(capture, capture_fixture),
              logs |-> capturing_logs(logging_plugin),
              exit_stack |-> <<"capturing_output", "capturing_logs">>,
              streams_before |-> streams,
              handlers_before |-> handlers]
    /\ streams' = IF capturing_output(capture, capture_fixture) # "None"
                  THEN Append(streams, "scope") ELSE streams
    /\ handlers' = IF capturing_logs(logging_plugin) = "CapturedLogs"
                   THEN handlers \cup {"scope"} ELSE handlers
    /\ entered' = entered + 1
    /\ pc' = "open"
    /\ UNCHANGED <<cfgVars, hostVars, raised, last_exit, interactions, last_sub,
                   outside_raised, hookVars, adapterVars>>

\* a slip: every exception of the body leaves the scope
ExitReturns_never_suppresses(exc_val, session_shouldfail) ==
    IF exc_val # NoExc THEN FALSE ELSE TRUE

\* a slip: the stop request of the session is ignored
ExitReturns_ignores_shouldfail(exc_val, session_shouldfail) == TRUE

\* a slip: the test of session.shouldfail is inverted
ExitReturns_inverted(exc_val, session_shouldfail) ==
    IF exc_val # NoExc /\ ~session_shouldfail THEN FALSE ELSE TRUE

\* __exit__'s decision: True suppresses the exception
ExitReturns(exc_val, session_shouldfail) ==
    IF exc_val # NoExc /\ session_shouldfail THEN FALSE ELSE TRUE

\* a slip: only the record of a scope that raised is dispatched
ExitDispatch_only_raised(sub_report) ==
    IF sub_report.dict["outcome"] = "passed"
    THEN UNCHANGED hostVars
    ELSE pytest_runtest_logreport(sub_report)

\* __exit__: with self.suspend_capture_ctx():
\*               self.ihook.pytest_runtest_logreport(report=sub_report)
ExitDispatch(sub_report) == pytest_runtest_logreport(sub_report)

\* The record __exit__ builds for the open scope
ExitReport(scope, body) ==
    LET captured == Captured(scope.fixture, body.out, body.err)
        call_info == make_call_info(body.exc, "call")
        report == pytest_runtest_makereport(call_info, xfailed)
        with_context == setattr(from_test_report(report), "context",
                                SubTestContext(scope.msg, scope.kwargs))
        sections == Logs_update_report(scope.logs, body.log,
                       Captured_update_report(captured, with_context.dict["sections"]))
    IN  setattr(with_context, "sections", sections)

\* a slip: the decision is taken before the record is dispatched
ExitOrder_decide_before_dispatch ==
    <<"close", "makereport", "attach", "decide", "suspend", "logreport", "resume",
      "interact">>

\* a slip: the record is dispatched before the collectors are released
ExitOrder_dispatch_before_close ==
    <<"makereport", "attach", "suspend", "logreport", "resume", "close", "interact",
      "decide">>

\* The steps of __exit__, in the order of the code.
ExitOrder ==
    <<"close", "makereport", "attach", "suspend", "logreport", "resume", "interact",
      "decide">>

\* __exit__ when it is called: the collectors are as __enter__ left them,
\* the Captured snapshot is empty, nothing is built or dispatched.
ExitStart(scope) ==
    [exit_stack |-> scope.exit_stack,
     released |-> <<>>,
     streams |-> streams,
     handlers |-> handlers,
     suspended |-> FALSE,
     captured |-> Captured("None", "", ""),
     report |-> None,
     dispatched |-> None,
     session_shouldfail |-> shouldfail,
     interact |-> FALSE,
     hook |-> None,
     returned |-> TRUE,
     trace |-> <<>>]

\* a slip: the collectors are released only when the body returned
close_unless_raised(s, scope, body) ==
    IF body.exc # NoExc THEN s
    ELSE [s EXCEPT
            !.exit_stack = <<>>,
            !.released = s.released \o [n \in 1..Len(s.exit_stack) |->
                                           s.exit_stack[Len(s.exit_stack) + 1 - n]],
            !.captured = Captured(scope.fixture, body.out, body.err),
            !.streams = IF scope.fixture # "None" /\ "capturing_output" \in Range(s.exit_stack)
                        THEN SubSeq(s.streams, 1, Len(s.streams) - 1) ELSE s.streams,
            !.handlers = IF "capturing_logs" \in Range(s.exit_stack)
                         THEN s.handlers \ {"scope"} ELSE s.handlers]

\* self._exit_stack.close(): the contexts entered by __enter__ are left,
\* the last one first: the log handler is detached; the output capture is
\* read into the snapshot and closed, which puts back the streams.
close(s, scope, body) ==
    [s EXCEPT
        !.exit_stack = <<>>,
        !.released = s.released \o [n \in 1..Len(s.exit_stack) |->
                                       s.exit_stack[Len(s.exit_stack) + 1 - n]],
        !.captured = IF "capturing_output" \in Range(s.exit_stack)
                     THEN Captured(scope.fixture, body.out, body.err) ELSE s.captured,
        !.streams = IF scope.fixture # "None" /\ "capturing_output" \in Range(s.exit_stack)
                    THEN SubSeq(s.streams, 1, Len(s.streams) - 1) ELSE s.streams,
        !.handlers = IF "capturing_logs" \in Range(s.exit_stack)
                     THEN s.handlers \ {"scope"} ELSE s.handlers]

\* One step of __exit__ on the scope whose body ran as body describes.
ExitStep_(step, s, scope, body) ==
    LET call_info == make_call_info(body.exc, "call")
        t == [s EXCEPT !.trace = Append(s.trace, step)]
    IN  CASE step = "close" -> close(t, scope, body)
          [] step = "makereport" ->
                [t EXCEPT !.report =
                    from_test_report(pytest_runtest_makereport(call_info, xfailed))]
          [] step = "attach" ->
                [t EXCEPT !.report =
                    LET with_context == setattr(s.report, "context",
                                                SubTestContext(scope.msg, scope.kwargs))
                    IN  setattr(with_context, "sections",
                            Logs_update_report(scope.logs, body.log,
                                Captured_update_report(s.captured,
                                    with_context.dict["sections"])))]
          [] step = "suspend" -> [t EXCEPT !.suspended = capman]
          [] step = "logreport" ->
                [t EXCEPT !.dispatched = [report |-> s.report,
                                          exit_stack |-> s.exit_stack,
                                          streams |-> s.streams,
                                          handlers |-> s.handlers,
                                          suspended |-> s.suspended,
                                          after |-> s.trace],
                          !.session_shouldfail =
                              ShouldFailAfter(shouldfail, testsfailed, s.report, maxfail)]
          [] step = "resume" -> [t EXCEPT !.suspended = FALSE]
          [] step = "interact" ->
                IF exception_interact(call_info, s.report) # None
                THEN [t EXCEPT !.interact = TRUE,
                               !.hook = exception_interact(call_info, s.report)]
                ELSE s
          [] step = "decide" ->
                [t EXCEPT !.returned = ExitReturns(body.exc, s.session_shouldfail)]

RECURSIVE ExitRun(_, _, _, _)
\* __exit__ from the first step of order to the last
ExitRun(order, s, scope, body) ==
    IF order = <<>> THEN s
    ELSE ExitRun(Tail(order), ExitStep_(Head(order), s, scope, body), scope, body)

\* The body of the open scope runs as body describes, then __exit__.
Exit(body) ==
    /\ pc = "open"
    /\ cm.exc_info \in {NoExc, body.exc}
    /\ LET done == ExitRun(ExitOrder, ExitStart(cm), cm, body)
           sub_report == done.dispatched.report
           ret == done.returned
       IN  /\ ExitDispatch(sub_report)
           /\ interactions' = IF done.interact THEN interactions + 1 ELSE interactions
           /\ last_sub' = [call |-> make_call_info(body.exc, "call"),
                           report |-> sub_report, hook |-> done.hook]
           /\ last_exit' = [exc |-> body.exc, shouldfail |-> shouldfail',
                            returned |-> ret, report |-> sub_report,
                            interact |-> done.interact, body |-> body,
                            fixture |-> cm.fixture, logs |-> cm.logs,
                            captured |-> done.captured,
                            sink |-> OutputSink(cm.fixture, capture_fixture, capture),
                            scope |-> cm,
                            released |-> done.released,
                            dispatched |-> done.dispatched,
                            suspended |-> done.suspended,
                            trace |-> done.trace]
           /\ streams' = done.streams
           /\ handlers' = done.handlers
           /\ raised' = raised (+) SetToBag({body.exc})
           /\ pc' = IF ret THEN "test" ELSE "raising"
           /\ cm' = IF ret THEN None ELSE [cm EXCEPT !.exc_info = body.exc]
    /\ UNCHANGED <<cfgVars, entered, outside_raised, hookVars, adapterVars>>

\* Code of the test function outside every scope raises.
OuterRaise(exc) ==
    /\ pc = "test"
    /\ pc' = "raising"
    /\ outside_raised' = exc
    /\ cm' = [msg |-> PyNone, kwargs |-> <<>>, exc_info |-> exc,
              fixture |-> "None", logs |-> "NullCapturedLogs"]
    /\ UNCHANGED <<cfgVars, streams, handlers, hostVars, entered, raised, last_exit, interactions, last_sub, hookVars, adapterVars>>

\* An exception leaves the test function: the host reports the call phase
\* from it.
CallRaised ==
    /\ pc = "raising"
    /\ pc' = "done"
    /\ pytest_runtest_logreport(
           pytest_runtest_makereport(make_call_info(cm.exc_info, "call"), xfailed))
    /\ cm' = None
    /\ UNCHANGED <<cfgVars, streams, handlers, entered, raised, last_exit, interactions, last_sub,
                   outside_raised, hookVars, adapterVars>>

\* The test function returns: the host reports the call phase as passed.
CallReturned ==
    /\ pc = "test"
    /\ pc' = "done"
    /\ pytest_runtest_logreport(
           pytest_runtest_makereport(make_call_info(NoExc, "call"), xfailed))
    /\ UNCHANGED <<cfgVars, streams, handlers, cm, entered, raised, last_exit, interactions, last_sub,
                   outside_raised, hookVars, adapterVars>>

\* The host finishes the teardown phase of the test.
Teardown ==
    /\ pc = "done"
    /\ pc' = "reported"
    /\ pytest_runtest_logreport(TestReport("teardown", "passed", FALSE))
    /\ UNCHANGED <<cfgVars, streams, handlers, cm, entered, raised, last_exit, interactions, last_sub,
                   outside_raised, hookVars, adapterVars>>

Next ==
    \/ Setup
    \/ \E c \in ScopeContexts : Enter(c.msg, c.kwargs)
    \/ \E body \in Bodies : Exit(body)
    \/ \E exc \in {"AssertionError", "Skipped"} : OuterRaise(exc)
    \/ CallRaised
    \/ CallReturned
    \/ Teardown

Spec == Init /\ [][Next]_vars

(***************************************************************************)
(* The same test when releasing the output capture can fail.               *)
(***************************************************************************)
\* The calls capturing_output makes on release; each may raise.
ReleaseCalls == {"readouterr", "close"}
\* What such a call raises.
ReleaseError == "OSError"

\* The body of the open scope runs as body describes, then __exit__, and
\* self._exit_stack.close() raises: the log handler is detached first, then
\* the finally of capturing_output runs fixture.readouterr() and
\* fixture.close(), and the one named failing raises.  After readouterr
\* raised, close is not called and the capture stays started; when close
\* itself raised the streams may or may not have been put back.  The
\* exception leaves the finally of __exit__: nothing after it runs.
ExitCloseRaises(body, failing) ==
    /\ pc = "open"
    /\ cm.fixture # "None"
    /\ handlers' = handlers \ {"scope"}
    /\ streams' \in (IF failing = "readouterr" THEN {streams}
                     ELSE {streams, SubSeq(streams, 1, Len(streams) - 1)})
    /\ last_exit' = [exc |-> body.exc, body |-> body, scope |-> cm,
                     release_error |-> ReleaseError,
                     failing |-> failing,
                     dispatched |-> None,
                     propagated |-> ReleaseError]
    /\ raised' = raised (+) SetToBag({body.exc})
    /\ pc' = "raising"
    /\ cm' = [cm EXCEPT !.exc_info = ReleaseError]
    /\ UNCHANGED <<cfgVars, hostVars, entered, interactions, last_sub, outside_raised, hookVars,
                   adapterVars>>

\* The test of Spec with --capture=fd or sys and no capture fixture of its own.
InitRelease ==
    /\ Init
    /\ capture \in {"fd", "sys"}
    /\ ~capture_fixture

NextRelease ==
    \/ Next
    \/ \E body \in Bodies, failing \in ReleaseCalls : ExitCloseRaises(body, failing)

SpecRelease == InitRelease /\ [][NextRelease]_vars


(***************************************************************************)
(* The same test when it opens a scope inside the body of an open scope.   *)
(* SubTests.test returns a new _SubTestContextManager at every call and    *)
(* __enter__ looks at no other manager, so the with statements may nest.   *)
(***************************************************************************)
\* a slip: the manager entered inside an open scope forgets that scope
Enclosing_forgotten(scope) == None

\* The manager of the with statement around the one being entered.
Enclosing(scope) == scope

\* The manager of the enclosing with statement, None for the outermost.
Outer(scope) == IF "outer" \in DOMAIN scope THEN scope.outer ELSE None

RECURSIVE Depth(_)
\* The number of with statements open at scope and around it.
Depth(scope) == IF scope = None THEN 0 ELSE 1 + Depth(Outer(scope))

\* with subtests.test(msg, **kwargs) inside the body of an open scope
EnterNested(msg, kwargs) ==
    /\ pc \in {"open", "nested"}
    /\ entered < MaxScopes
    /\ cm.exc_info = NoExc
    /\ cm' = [msg |-> msg, kwargs |-> kwargs,
              exc_info |-> NoExc,
              fixture |-> capturing_output(capture, capture_fixture),
              logs |-> capturing_logs(logging_plugin),
              exit_stack |-> <<"capturing_output", "capturing_logs">>,
              streams_before |-> streams,
              handlers_before |-> handlers,
              outer |-> Enclosing(cm)]
    /\ streams' = IF capturing_output(capture, capture_fixture) # "None"
                  THEN Append(streams, "scope") ELSE streams
    /\ handlers' = IF capturing_logs(logging_plugin) = "CapturedLogs"
                   THEN handlers \cup {"scope"} ELSE handlers
    /\ entered' = entered + 1
    /\ pc' = "nested"
    /\ UNCHANGED <<cfgVars, hostVars, raised, last_exit, interactions, last_sub,
                   outside_raised, hookVars, adapterVars>>

\* The body of the innermost open scope runs as body describes, then its
\* __exit__; control is back in the body of the enclosing scope, which ends
\* with the exception when __exit__ let it through.  ("scope" in handlers
\* stands for the handlers of all open scopes: the enclosing one's stays.)
ExitNested(body) ==
    /\ pc = "nested"
    /\ Outer(cm) # None
    /\ cm.exc_info \in {NoExc, body.exc}
    /\ LET done == ExitRun(ExitOrder, ExitStart(cm), cm, body)
           sub_report == done.dispatched.report
           ret == done.returned
       IN  /\ ExitDispatch(sub_report)
           /\ interactions' = IF done.interact THEN interactions + 1 ELSE interactions
           /\ last_sub' = [call |-> make_call_info(body.exc, "call"),
                           report |-> sub_report, hook |-> done.hook]
           /\ last_exit' = [exc |-> body.exc, shouldfail |-> shouldfail',
                            returned |-> ret, report |-> sub_report,
                            interact |-> done.interact, body |-> body,
                            fixture |-> cm.fixture, logs |-> cm.logs,
                            captured |-> done.captured,
                            sink |-> OutputSink(cm.fixture, capture_fixture, capture),
                            scope |-> cm,
                            released |-> done.released,
                            dispatched |-> done.dispatched,
                            suspended |-> done.suspended,
                            trace |-> done.trace]
           /\ streams' = done.streams
           /\ handlers' = done.handlers
                            \cup (IF Outer(cm).logs = "CapturedLogs" THEN {"scope"} ELSE {})
           /\ raised' = raised (+) SetToBag({body.exc})
           /\ pc' = IF Outer(Outer(cm)) # None THEN "nested" ELSE "open"
           /\ cm' = IF ret THEN Outer(cm) ELSE [Outer(cm) EXCEPT !.exc_info = body.exc]
    /\ UNCHANGED <<cfgVars, entered, outside_raised, hookVars, adapterVars>>

\* The test of Spec with the capture plugin, --capture=fd or no, and no
\* capture fixture of its own.
InitNested ==
    /\ Init
    /\ capture \in {"fd", "no"}
    /\ ~capture_fixture

NextNested ==
    \/ Next
    \/ \E c \in ScopeContexts : EnterNested(c.msg, c.kwargs)
    \/ \E body \in Bodies : ExitNested(body)

SpecNested == InitNested /\ [][NextNested]_vars


\* The same test, possibly marked xfail (strict or not); the scope captures
\* output and logs.
InitXfail ==
    /\ no_subtests_shortletter = FALSE
    /\ maxfail \in 0..MaxFail
    /\ capman = TRUE
    /\ capture = "fd"
    /\ capture_fixture = FALSE
    /\ logging_plugin = TRUE
    /\ xfailed \in XfailMarks
    /\ InitAdapterIdle
    /\ testsfailed \in (IF maxfail = 0 THEN {0} ELSE 0..(maxfail - 1))
    /\ shouldfail = FALSE
    /\ pc = "setup"
    /\ cm = None
    /\ entered = 0
    /\ raised = EmptyBag
    /\ last_exit = None
    /\ logged = EmptyBag
    /\ last_report = None
    /\ stats = [c \in Categories |-> 0]
    /\ interactions = 0
    /\ last_sub = None
    /\ outside_raised = NoExc
    /\ streams = StreamsOfTest(capture, capture_fixture)
    /\ handlers = HandlersOfTest(logging_plugin)
    /\ InitHooksIdle

SpecXfail == InitXfail /\ [][Next]_vars

(***************************************************************************)
(* The hooks on one report: classification, transport to another process,  *)
(* classification on the receiving side.                                   *)
(***************************************************************************)
\* The reports the host hands to the hooks.
HookReports ==
    {TestReport(w, o, x) : w \in Whens, o \in Outcomes, x \in BOOLEAN}
        \cup {SubTestReport(w, o, x, c) :
                w \in Whens, o \in Outcomes, x \in BOOLEAN, c \in Contexts}

\* Mappings of a report that this plugin did not produce: the host's own
\* transport form (its discriminator is "$report_type"), the bare attribute
\* mapping, and a mapping whose "_report_type" names another class.
ForeignMappings(report) ==
    LET data == TestReport_to_json(report)
    IN  {data,
         ("$report_type" :> report.cls) @@ data,
         ("_report_type" :> "TestReport") @@ data}

InitRunIdle ==
    /\ maxfail = 0
    /\ capman = TRUE
    /\ capture = "no"
    /\ capture_fixture = FALSE
    /\ logging_plugin = FALSE
    /\ xfailed = "None"
    /\ testsfailed = 0
    /\ shouldfail = FALSE
    /\ pc = "idle"
    /\ cm = None
    /\ entered = 0
    /\ raised = EmptyBag
    /\ last_exit = None
    /\ logged = EmptyBag
    /\ last_report = None
    /\ stats = [c \in Categories |-> 0]
    /\ interactions = 0
    /\ last_sub = None
    /\ outside_raised = NoExc
    /\ streams = StreamsOfTest(capture, capture_fixture)
    /\ handlers = HandlersOfTest(logging_plugin)

InitReport ==
    /\ InitRunIdle
    /\ InitAdapterIdle
    /\ no_subtests_shortletter \in BOOLEAN
    /\ hReport \in HookReports
    /\ hpc = "start"
    /\ hDescription = Unset
    /\ hStatus = Unset
    /\ hData = Unset
    /\ hWire = Unset
    /\ hRestored = Unset
    /\ hRestoredStatus = Unset

\* The terminal asks for the status of the report.
ReportTestStatus ==
    /\ hpc = "start"
    /\ hStatus' = pytest_report_teststatus(hReport, no_subtests_shortletter)
    /\ hDescription' =
          IF hReport.dict["when"] # "call" \/ ~isinstance(hReport, "SubTestReport")
          THEN Unset
          ELSE sub_test_description(hReport.dict["context"])
    /\ hpc' = "classified"
    /\ UNCHANGED <<cfgVars, hostVars, runVars, adapterVars, hReport, hData, hWire, hRestored,
                   hRestoredStatus>>

\* A worker asks for the transport form of the report.
ToSerializable ==
    /\ hpc = "classified"
    /\ hData' = pytest_report_to_serializable(hReport)
    /\ hpc' = "serialized"
    /\ UNCHANGED <<cfgVars, hostVars, runVars, adapterVars, hReport, hDescription, hStatus, hWire, hRestored,
                   hRestoredStatus>>

\* The coordinating process receives the plugin's mapping.
FromSerializable ==
    /\ hpc = "serialized"
    /\ hData # None
    /\ hWire' = hData
    /\ hRestored' = pytest_report_from_serializable(hData)
    /\ hpc' = "received"
    /\ UNCHANGED <<cfgVars, hostVars, runVars, adapterVars, hReport, hDescription, hStatus, hData, hRestoredStatus>>

\* The plugin declined the report: the coordinating process receives a
\* mapping made by someone else.
ForeignFromSerializable(data) ==
    /\ hpc = "serialized"
    /\ hData = None
    /\ hWire' = data
    /\ hRestored' = pytest_report_from_serializable(data)
    /\ hpc' = "received"
    /\ UNCHANGED <<cfgVars, hostVars, runVars, adapterVars, hReport, hDescription, hStatus, hData, hRestoredStatus>>

\* The terminal of the coordinating process asks for the status of the
\* rebuilt report.
RestoredTestStatus ==
    /\ hpc = "received"
    /\ hRestored # None
    /\ hRestoredStatus' = pytest_report_teststatus(hRestored, no_subtests_shortletter)
    /\ hpc' = "reclassified"
    /\ UNCHANGED <<cfgVars, hostVars, runVars, adapterVars, hReport, hDescription, hStatus, hData, hWire, hRestored>>

NextReport ==
    \/ ReportTestStatus
    \/ ToSerializable
    \/ FromSerializable
    \/ \E data \in ForeignMappings(hReport) : ForeignFromSerializable(data)
    \/ RestoredTestStatus

SpecReport == InitReport /\ [][NextReport]_vars

(***************************************************************************)
(* The unittest adapter: the attributes pytest_configure binds on          *)
(* TestCaseFunction, and one TestCase method run through them.             *)
(***************************************************************************)
\* new_types of pytest_configure
new_types == <<"subtests passed", "subtests failed", "subtests skipped">>

\* a slip: the new types are added at every configure call
known_types_always_added(known) == known \o new_types

\* if new_types[0] not in KNOWN_TYPES: KNOWN_TYPES = KNOWN_TYPES + new_types
known_types_with_new(known) ==
    IF new_types[1] \notin Range(known) THEN known \o new_types ELSE known

\* _color_for_type.update({f"subtests {outcome}": _color_for_type[outcome]
\*     for outcome in ("passed", "failed", "skipped") if outcome in _color_for_type})
color_for_type_updated(colors) ==
    [t \in DOMAIN colors
              \cup {"subtests " \o o : o \in {"passed", "failed", "skipped"}
                                              \cap DOMAIN colors} |->
        IF t \in {"subtests passed", "subtests failed", "subtests skipped"}
        THEN colors[CHOOSE o \in DOMAIN colors : "subtests " \o o = t]
        ELSE colors[t]]

\* a slip: the saved binding is overwritten by every configure call
pytest_configure_unguarded ==
    /\ configures < MaxSessions
    /\ upc \in {"idle", "reported"}
    /\ addSubTest' = "_addSubTest"
    /\ failfast' = "False"
    /\ originaladdSkip' = addSkip
    /\ addSkip' = "_addSkip"
    /\ KNOWN_TYPES' = known_types_with_new(KNOWN_TYPES)
    /\ color_for_type' = color_for_type_updated(color_for_type)
    /\ configures' = configures + 1
    /\ last_hook' = "configure"
    /\ UNCHANGED <<cfgVars, hostVars, runVars, hookVars, py311, unconfigures, caseVars>>

\* pytest_configure
pytest_configure ==
    /\ configures < MaxSessions
    /\ upc \in {"idle", "reported"}
    /\ addSubTest' = "_addSubTest"
    /\ failfast' = "False"
    /\ originaladdSkip' = IF originaladdSkip = "absent" THEN addSkip ELSE originaladdSkip
    /\ addSkip' = "_addSkip"
    /\ KNOWN_TYPES' = known_types_with_new(KNOWN_TYPES)
    /\ color_for_type' = color_for_type_updated(color_for_type)
    /\ configures' = configures + 1
    /\ last_hook' = "configure"
    /\ UNCHANGED <<cfgVars, hostVars, runVars, hookVars, py311, unconfigures, caseVars>>

\* pytest_unconfigure
pytest_unconfigure ==
    /\ unconfigures < MaxSessions
    /\ upc \in {"idle", "reported"}
    /\ addSubTest' = "absent"
    /\ failfast' = "absent"
    /\ addSkip' = IF originaladdSkip # "absent" THEN originaladdSkip ELSE addSkip
    /\ originaladdSkip' = "absent"
    /\ unconfigures' = unconfigures + 1
    /\ last_hook' = "unconfigure"
    /\ UNCHANGED <<cfgVars, hostVars, runVars, hookVars, py311, KNOWN_TYPES,
                   color_for_type, configures, caseVars>>

\* unittest's class-level default of subTest(msg=...): not a string
subtest_msg_sentinel == [type |-> "object", s |-> "", items |-> <<>>]

\* The TestCase itself (sub = 0) and the _SubTest objects of its scopes, as
\* the callbacks receive them: test._message, test.params.
TestCaseOf(n) ==
    IF n = 0 THEN [sub |-> 0]
    ELSE [sub |-> n,
          message |-> IF n % 2 = 1 THEN PyStr("custom message") ELSE subtest_msg_sentinel,
          params |-> <<[k |-> "i", v |-> PyInt(n)]>>]

\* isinstance(testcase, _SubTest)
IsSubTest(testcase) == testcase.sub # 0

\* What the body of a subTest scope does: returns, fails an assertion, calls
\* self.skipTest (unittest.SkipTest), or calls pytest.skip (Skipped, which
\* unittest handles as an error of the scope).
SubTestBodies == {"pass", "AssertionError", "SkipTest", "Skipped"}
\* How the test method ends outside every scope.
MethodEnds == {"return", "SkipTest", "AssertionError"}

\* The host's TestCaseFunction.addSkip, bound as _originaladdSkip: the skip
\* exception is queued in self._excinfo.
TestCaseFunction_addSkip(queue) == Append(queue, "Skipped")

\* The host's makereport for a TestCaseFunction: an exception queued in
\* item._excinfo replaces the one of the call (call.excinfo =
\* item._excinfo.pop(0)); the call object is changed in place.
TestCaseFunction_makereport(queue, call_info) ==
    LET call == IF queue # <<>> THEN [call_info EXCEPT !.excinfo = Head(queue)]
                ELSE call_info
    IN  [call |-> call,
         report |-> pytest_runtest_makereport(call, xfailed),
         queue |-> IF queue # <<>> THEN Tail(queue) ELSE queue]

\* [x for x, y in self.instance._outcome.errors
\*    if isinstance(x, _SubTest) and y is not None]
subtest_errors(oc) == SelectSeq(oc.errors, LAMBDA e : e.sub # 0 /\ e.exc_info # None)
\* [(x, y) for x, y in self.instance._outcome.skipped if not isinstance(x, _SubTest)]
non_subtest_skip(oc) == SelectSeq(oc.skipped, LAMBDA e : e.sub = 0)

\* A callback that did nothing visible.
NoResult(queue, fired) ==
    [queue |-> queue, fired |-> fired, report |-> None, interact |-> FALSE, sub |-> 0,
     call |-> None, hook |-> None, test |-> None, exc_info |-> None]

\* _addSubTest(self, test_case, test, exc_info): the queue self._excinfo and
\* the number of _originaladdSkip calls for the test afterwards, the record
\* dispatched, and whether pytest_exception_interact is called.
addSubTest_result(queue, fired, oc, test, exc_info) ==
    LET msg == IF test.message.type = "str" THEN test.message ELSE PyNone
        call_info == make_call_info(IF exc_info # None THEN exc_info.exc ELSE NoExc, "call")
        made == TestCaseFunction_makereport(queue, call_info)
        sub_report == setattr(from_test_report(made.report), "context",
                              SubTestContext(msg, test.params))
        hook == exception_interact(made.call, sub_report)
        last_error_reached ==
            /\ ~py311
            /\ Len(non_subtest_skip(oc)) > 0
            /\ Len(subtest_errors(oc)) > 0
            /\ exc_info = subtest_errors(oc)[Len(subtest_errors(oc))].exc_info
    IN  [queue |-> IF last_error_reached
                   THEN made.queue \o [n \in 1..Len(non_subtest_skip(oc)) |-> "Skipped"]
                   ELSE made.queue,
         fired |-> IF last_error_reached THEN fired + Len(non_subtest_skip(oc)) ELSE fired,
         report |-> sub_report,
         interact |-> hook # None,
         sub |-> test.sub,
         call |-> made.call,
         hook |-> hook,
         test |-> test,
         exc_info |-> exc_info]

\* a slip: a skip inside a scope is handled as a skip of the test
addSkip_result_unattributed(queue, fired, oc, testcase) ==
    [NoResult(TestCaseFunction_addSkip(queue), fired) EXCEPT
        !.fired = IF IsSubTest(testcase) THEN fired ELSE fired + 1]

\* a slip: a skip outside the scopes is handled as soon as it arrives
addSkip_result_at_once(queue, fired, oc, testcase) ==
    IF IsSubTest(testcase)
    THEN LET queued == TestCaseFunction_addSkip(queue)
         IN  addSubTest_result(queued, fired, oc, testcase,
                               [id |-> 0, exc |-> queued[Len(queued)]])
    ELSE NoResult(TestCaseFunction_addSkip(queue), fired + 1)

\* _addSkip(self, testcase, reason)
addSkip_result(queue, fired, oc, testcase) ==
    IF IsSubTest(testcase)
    THEN LET queued == TestCaseFunction_addSkip(queue)
         IN  addSubTest_result(queued, fired, oc, testcase,
                               [id |-> 0, exc |-> queued[Len(queued)]])
    ELSE IF ~py311 /\ oc # None
         THEN IF Len(subtest_errors(oc)) = 0
              THEN NoResult(TestCaseFunction_addSkip(queue), fired + 1)
              ELSE NoResult(queue, fired)
         ELSE NoResult(TestCaseFunction_addSkip(queue), fired + 1)

\* The state after a callback of the plugin returned.
Deliver(r) ==
    /\ excinfo' = r.queue
    /\ skip_fired' = r.fired
    /\ IF r.report # None
       THEN /\ pytest_runtest_logreport(r.report)
            /\ urecords' = [urecords EXCEPT ![r.sub] = Append(@, r.report.dict["outcome"])]
            /\ interactions' = IF r.interact THEN interactions + 1 ELSE interactions
            /\ last_sub' = [call |-> r.call, report |-> r.report, hook |-> r.hook,
                            test |-> r.test, exc_info |-> r.exc_info]
       ELSE UNCHANGED <<hostVars, urecords, interactions, last_sub>>
\* No callback is made.
NoCallback == UNCHANGED <<hostVars, excinfo, urecords, skip_fired, interactions, last_sub>>

restOfRun == <<pc, cm, entered, raised, last_exit, outside_raised, streams, handlers>>

\* TestCase.run on Python < 3.11: what it does after the method ended
AfterMethod(oc) ==
    IF oc.skipped # <<>> THEN "skips" ELSE IF oc.errors # <<>> THEN "errors" ELSE "ran"

\* The interception is what TestCaseFunction is bound to.
Installed == addSkip = "_addSkip" /\ addSubTest = "_addSubTest"

\* The host runs a test method: TestCase.run creates the outcome object.
RunTest ==
    /\ upc = "idle"
    /\ Installed
    /\ upc' = "method"
    /\ instance_outcome' =
          IF py311 THEN [success |-> TRUE]
          ELSE [skipped |-> <<>>, errors |-> <<>>, success |-> TRUE]
    /\ excinfo' = <<>>
    /\ UNCHANGED <<cfgVars, hostVars, runVars, hookVars, processVars, ubodies, uended,
                   fpos, urecords, skip_calls, skip_fired>>

\* The host runs a test decorated with unittest.skip: TestCase.run reports
\* the skip before it creates the outcome object (_outcome is None).
RunSkippedTest ==
    /\ upc = "idle"
    /\ Installed
    /\ upc' = "ran"
    /\ uended' = "SkipTest"
    /\ skip_calls' = skip_calls + 1
    /\ Deliver(addSkip_result(<<>>, skip_fired, instance_outcome, TestCaseOf(0)))
    /\ UNCHANGED <<cfgVars, restOfRun, hookVars, processVars, instance_outcome, ubodies, fpos>>

\* with self.subTest(msg, **params): the body runs as kind says.  On
\* Python >= 3.11 the callback is made at once; before, the result is noted
\* in the outcome object.
SubTest(kind) ==
    /\ upc = "method"
    /\ Len(ubodies) < MaxSubTests
    /\ LET test == TestCaseOf(Len(ubodies) + 1)
           exc_info == [id |-> test.sub, exc |-> kind]
           success == instance_outcome.success
       IN  /\ ubodies' = Append(ubodies, kind)
           /\ IF py311
              THEN /\ instance_outcome' = [success |-> success /\ kind = "pass"]
                   /\ IF kind = "pass"
                      THEN IF success
                           THEN Deliver(addSubTest_result(excinfo, skip_fired,
                                            instance_outcome', test, None))
                           ELSE NoCallback
                      ELSE IF kind = "SkipTest"
                      THEN Deliver(addSkip_result(excinfo, skip_fired,
                                       instance_outcome', test))
                      ELSE Deliver(addSubTest_result(excinfo, skip_fired,
                                       instance_outcome', test, exc_info))
              ELSE /\ instance_outcome' =
                         [skipped |-> IF kind = "SkipTest"
                                      THEN Append(instance_outcome.skipped, [sub |-> test.sub])
                                      ELSE instance_outcome.skipped,
                          errors |-> IF kind = "pass" /\ success
                                     THEN Append(instance_outcome.errors,
                                                 [sub |-> test.sub, exc_info |-> None])
                                     ELSE IF kind \in {"AssertionError", "Skipped"}
                                     THEN Append(instance_outcome.errors,
                                                 [sub |-> test.sub, exc_info |-> exc_info])
                                     ELSE instance_outcome.errors,
                          success |-> success /\ kind = "pass"]
                   /\ NoCallback
    /\ UNCHANGED <<cfgVars, restOfRun, hookVars, processVars, upc, uended, fpos, skip_calls>>

\* The test method ends outside every scope: it returns, calls
\* self.skipTest, or fails an assertion.
MethodEnd(how) ==
    /\ upc = "method"
    /\ uended' = how
    /\ IF py311
       THEN /\ upc' = "ran"
            /\ instance_outcome' = [success |-> instance_outcome.success /\ how = "return"]
            /\ fpos' = fpos
            /\ IF how = "SkipTest"
               THEN /\ skip_calls' = skip_calls + 1
                    /\ Deliver(addSkip_result(excinfo, skip_fired, instance_outcome',
                                              TestCaseOf(0)))
               ELSE /\ skip_calls' = skip_calls
                    /\ excinfo' = IF how = "AssertionError"
                                  THEN Append(excinfo, "AssertionError") ELSE excinfo
                    /\ UNCHANGED <<hostVars, urecords, skip_fired, interactions, last_sub>>
       ELSE /\ instance_outcome' =
                  [skipped |-> IF how = "SkipTest"
                               THEN Append(instance_outcome.skipped, [sub |-> 0])
                               ELSE instance_outcome.skipped,
                   errors |-> IF how = "return" /\ instance_outcome.success
                              THEN Append(instance_outcome.errors,
                                          [sub |-> 0, exc_info |-> None])
                              ELSE IF how = "AssertionError"
                              THEN Append(instance_outcome.errors,
                                          [sub |-> 0, exc_info |-> [id |-> 0, exc |-> how]])
                              ELSE instance_outcome.errors,
                   success |-> instance_outcome.success /\ how = "return"]
            /\ upc' = AfterMethod(instance_outcome')
            /\ fpos' = 1
            /\ skip_calls' = skip_calls
            /\ NoCallback
    /\ UNCHANGED <<cfgVars, restOfRun, hookVars, processVars, ubodies>>

\* TestCase.run on Python < 3.11: for test, reason in outcome.skipped:
\* result.addSkip(test, reason)
FeedSkip ==
    /\ upc = "skips"
    /\ LET testcase == TestCaseOf(instance_outcome.skipped[fpos].sub)
       IN  /\ skip_calls' = IF IsSubTest(testcase) THEN skip_calls ELSE skip_calls + 1
           /\ Deliver(addSkip_result(excinfo, skip_fired, instance_outcome, testcase))
    /\ IF fpos < Len(instance_outcome.skipped)
       THEN fpos' = fpos + 1 /\ upc' = upc
       ELSE fpos' = 1 /\ upc' = (IF instance_outcome.errors # <<>> THEN "errors" ELSE "ran")
    /\ UNCHANGED <<cfgVars, restOfRun, hookVars, processVars, instance_outcome, ubodies,
                   uended>>

\* TestCase.run on Python < 3.11, _feedErrorsToResult: addSubTest for a
\* scope, addFailure for the test itself
FeedError ==
    /\ upc = "errors"
    /\ LET e == instance_outcome.errors[fpos]
       IN  IF e.sub # 0
           THEN Deliver(addSubTest_result(excinfo, skip_fired, instance_outcome,
                                          TestCaseOf(e.sub), e.exc_info))
           ELSE /\ excinfo' = IF e.exc_info # None THEN Append(excinfo, e.exc_info.exc)
                              ELSE excinfo
                /\ UNCHANGED <<hostVars, urecords, skip_fired, interactions, last_sub>>
    /\ IF fpos < Len(instance_outcome.errors)
       THEN fpos' = fpos + 1 /\ upc' = upc
       ELSE fpos' = fpos /\ upc' = "ran"
    /\ UNCHANGED <<cfgVars, restOfRun, hookVars, processVars, instance_outcome, ubodies,
                   uended, skip_calls>>

\* TestCase.run has returned: the host reports the call phase of the test
\* from what is queued in self._excinfo.
CaseCallReport ==
    /\ upc = "ran"
    /\ upc' = "reported"
    /\ LET made == TestCaseFunction_makereport(excinfo, make_call_info(NoExc, "call"))
       IN  /\ pytest_runtest_logreport(made.report)
           /\ excinfo' = made.queue
    /\ UNCHANGED <<cfgVars, runVars, hookVars, processVars, instance_outcome, ubodies,
                   uended, fpos, urecords, skip_calls, skip_fired>>

InitUnittest ==
    /\ InitRunIdle
    /\ no_subtests_shortletter = FALSE
    /\ InitHooksIdle
    /\ py311 \in BOOLEAN
    /\ InitProcess
    /\ upc = "idle"
    /\ instance_outcome = None
    /\ excinfo = None
    /\ ubodies = <<>>
    /\ uended = "no"
    /\ fpos = 0
    /\ urecords = [i \in 1..MaxSubTests |-> <<>>]
    /\ skip_calls = 0
    /\ skip_fired = 0

NextUnittest ==
    \/ pytest_configure
    \/ pytest_unconfigure
    \/ RunTest
    \/ RunSkippedTest
    \/ \E kind \in SubTestBodies : SubTest(kind)
    \/ \E how \in MethodEnds : MethodEnd(how)
    \/ FeedSkip
    \/ FeedError
    \/ CaseCallReport

SpecUnittest == InitUnittest /\ [][NextUnittest]_vars

\* Tests of both styles: one that uses the subtests fixture, one that is a
\* unittest.TestCase method.
SpecScopes == (Init \/ InitUnittest) /\ [][Next \/ NextUnittest]_vars

\* The terminal of a configured process asks for the status of a subtest
\* record: pytest_configure and pytest_unconfigure as the sessions of the
\* process begin and end, pytest_report_teststatus on a call-phase record.
InitTerminal ==
    /\ InitRunIdle
    /\ no_subtests_shortletter \in BOOLEAN
    /\ py311 \in BOOLEAN
    /\ InitProcess
    /\ upc = "idle"
    /\ instance_outcome = None
    /\ excinfo = None
    /\ ubodies = <<>>
    /\ uended = "no"
    /\ fpos = 0
    /\ urecords = [i \in 1..MaxSubTests |-> <<>>]
    /\ skip_calls = 0
    /\ skip_fired = 0
    /\ hReport \in {SubTestReport("call", o, x, c) :
                       o \in Outcomes, x \in BOOLEAN, c \in ScopeContexts}
    /\ hpc = "start"
    /\ hDescription = Unset
    /\ hStatus = Unset
    /\ hData = Unset
    /\ hWire = Unset
    /\ hRestored = Unset
    /\ hRestoredStatus = Unset

NextTerminal ==
    \/ pytest_configure
    \/ pytest_unconfigure
    \/ ReportTestStatus

SpecTerminal == InitTerminal /\ [][NextTerminal]_vars

(***************************************************************************)
(* Properties of the scope, checked under Spec.                            *)
(***************************************************************************)
Failures == {"AssertionError", "RuntimeError"}
\* number of scopes that have exited
Exited == BagCardinality(raised)
\* number of exited scopes whose body raised exc (NoExc: returned)
RaisedCount(exc) == CopiesIn(exc, raised)
\* number of subtest records of one kind given to logreport
SubRecords(outcome, wasxfail) == CopiesIn(SubKind(outcome, wasxfail), logged)
\* number of subtest records given to logreport
AllSubRecords ==
    SubRecords("passed", FALSE) + SubRecords("failed", FALSE) + SubRecords("skipped", FALSE)
        + SubRecords("passed", TRUE) + SubRecords("failed", TRUE) + SubRecords("skipped", TRUE)
\* number of call-phase records of the enclosing test itself, by outcome
TestRecords(outcome) == CopiesIn(TestKind("call", outcome), logged)
\* the step is an __exit__ call
ExitStep == pc = "open" /\ pc' # "open"

\* C1: a scope whose body raises while session.shouldfail is falsy at exit
\* has the exception intercepted (__exit__ returns True) and the test goes on
\* after the scope; an exception of a body leaves the scope only when
\* session.shouldfail is truthy.
C1_SuppressedUnlessFailFast ==
    [][ExitStep =>
          /\ (last_exit'.exc # NoExc /\ ~shouldfail') =>
                (last_exit'.returned /\ pc' = "test" /\ cm' = None)
          /\ (pc' = "raising" \/ ~last_exit'.returned) =>
                (shouldfail' /\ last_exit'.exc # NoExc)]_vars

C1_Witness ==
    /\ pc = "test"
    /\ last_exit # None
    /\ last_exit.exc = "RuntimeError"
    /\ last_exit.returned
    /\ ~shouldfail
    /\ Exited = 2

\* C2: under --exitfirst (maxfail = 1), once the body of a scope S1 has
\* failed, its failed record is the one dispatched, __exit__ returned False,
\* the exception is on its way out of the test, and no later scope S2 is
\* entered or gets a record.
C2_FailFastStopsAtFirstFailure ==
    (maxfail = 1 /\ \E exc \in Failures : BagIn(exc, raised)) =>
        /\ ~last_exit.returned
        /\ last_exit.exc \in Failures
        /\ Kind(last_exit.report) = SubKind("failed", FALSE)
        /\ SubRecords("failed", FALSE) = 1
        /\ pc \in {"raising", "done", "reported"}
        /\ cm = None \/ cm.exc_info = last_exit.exc
        /\ entered = Exited
        /\ AllSubRecords = entered

C2_Witness ==
    /\ maxfail = 1
    /\ pc = "reported"
    /\ entered = 1
    /\ entered < MaxScopes
    /\ last_exit.exc = "AssertionError"
    /\ AllSubRecords = 1
    /\ TestRecords("failed") = 1

\* every scope that has exited raised an assertion error or returned
C3_OnlyAssertionsAndPasses ==
    \A exc \in BagToSet(raised) : exc \in {NoExc, "AssertionError"}

\* C3: without a failure threshold (maxfail = 0), when K of the N exited
\* scopes raised an assertion error and the others returned, exactly K
\* failed and N-K passed subtest records have been dispatched, and the test's
\* own call report is failed exactly when code outside the scopes failed.
C3_CountsFollowBodies ==
    (maxfail = 0 /\ C3_OnlyAssertionsAndPasses) =>
        /\ SubRecords("failed", FALSE) = RaisedCount("AssertionError")
        /\ SubRecords("passed", FALSE) = Exited - RaisedCount("AssertionError")
        /\ AllSubRecords = Exited
        /\ pc \in {"done", "reported"} =>
              /\ TestRecords("failed") = (IF outside_raised \in Failures THEN 1 ELSE 0)
              /\ TestRecords("passed") = (IF outside_raised = NoExc THEN 1 ELSE 0)

C3_Witness ==
    /\ maxfail = 0
    /\ pc = "reported"
    /\ Exited = 3
    /\ RaisedCount("AssertionError") = 2
    /\ RaisedCount(NoExc) = 1
    /\ outside_raised = NoExc
    /\ TestRecords("passed") = 1

\* C4: the number of subtest records dispatched equals the number of scopes
\* that have exited; while a scope is open its record does not exist yet;
\* this holds whether the bodies returned, raised, or raised with the stop
\* request set.
C4_OneRecordPerExit ==
    /\ AllSubRecords = Exited
    /\ pc = "open" => Exited = entered - 1
    /\ pc # "open" => Exited = entered
    /\ last_exit # None => BagIn(Kind(last_exit.report), logged)

C4_Witness ==
    /\ pc = "raising"
    /\ outside_raised = NoExc
    /\ ~last_exit.returned
    /\ Exited = 3
    /\ AllSubRecords = 3
    /\ RaisedCount(NoExc) = 1

\* the test is over; its only code opened scopes that failed an assertion
\* or passed
C5_LoopOnly ==
    /\ pc = "reported"
    /\ outside_raised = NoExc
    /\ C3_OnlyAssertionsAndPasses
\* failed = K, passed = 1, subtests passed = N-K
C5_Counts ==
    /\ stats["failed"] = RaisedCount("AssertionError")
    /\ stats["passed"] = 1
    /\ stats["subtests passed"] = Exited - RaisedCount("AssertionError")

\* C5 as stated: a test whose only code opens N scopes, K failing an
\* assertion and the others passing, ends with the counts failed = K,
\* passed = 1, subtests passed = N-K.
C5_CountsAlways == C5_LoopOnly => C5_Counts

\* C5, amended: the counts are these when the session has not asked to stop
\* (session.shouldfail is falsy; always so without --maxfail); failed
\* subtests are in "failed" and in no subtests category, passed subtests in
\* "subtests passed" only.
C5_CountsUnlessStopped ==
    (C5_LoopOnly /\ ~shouldfail) =>
        /\ C5_Counts
        /\ stats["subtests failed"] = 0
        /\ stats["skipped"] = 0

C5_Witness ==
    /\ C5_LoopOnly
    /\ maxfail = 2
    /\ ~shouldfail
    /\ Exited = 3
    /\ stats["failed"] = 1
    /\ stats["passed"] = 1
    /\ stats["subtests passed"] = 2

(***************************************************************************)
(* Properties of the hooks, checked under SpecReport.                      *)
(***************************************************************************)
\* pytest_report_teststatus has run on a call-phase subtest record
ClassifiedSub ==
    /\ hpc # "start"
    /\ isinstance(hReport, "SubTestReport")
    /\ hReport.dict["when"] = "call"
HasMarker == hasattr(hReport, "wasxfail")
HOutcome == hReport.dict["outcome"]

\* the triples of the table, with their glyphs
C6_Table ==
    /\ HOutcome = "passed" => hStatus = <<"subtests passed", ",", hDescription \o " SUBPASS">>
    /\ HOutcome = "skipped" => hStatus = <<"skipped", "-", hDescription \o " SUBSKIP">>
    /\ HOutcome = "failed" => hStatus = <<"failed", "u", hDescription \o " SUBFAIL">>

\* C6 as stated: a call-phase subtest record without the marker gets
\* ('subtests passed', ',', '<description> SUBPASS'), ('skipped', '-',
\* '<description> SUBSKIP') or ('failed', 'u', '<description> SUBFAIL').
C6_PlainTableAlways == (ClassifiedSub /\ ~HasMarker) => C6_Table

\* C6, amended: it gets these triples when no_subtests_shortletter is not
\* set; when it is set, the glyph is '' and category and summary line are the
\* same.
C6_PlainTable ==
    (ClassifiedSub /\ ~HasMarker) =>
        /\ ~no_subtests_shortletter => C6_Table
        /\ no_subtests_shortletter =>
              /\ hStatus[2] = ""
              /\ hStatus[1] = (IF HOutcome = "passed" THEN "subtests passed" ELSE HOutcome)
              /\ hStatus[3] = hDescription \o
                    (CASE HOutcome = "passed" -> " SUBPASS"
                       [] HOutcome = "skipped" -> " SUBSKIP"
                       [] HOutcome = "failed" -> " SUBFAIL")

C6_Witness ==
    /\ ClassifiedSub
    /\ ~HasMarker
    /\ ~no_subtests_shortletter
    /\ hStatus = <<"skipped", "-", "[custom] (i=1) SUBSKIP">>

\* the triples of the table, with their glyphs
C7_Table ==
    /\ HOutcome = "skipped" =>
          hStatus = <<"subtests xfailed", "y", hDescription \o " SUBXFAIL">>
    /\ HOutcome = "passed" =>
          hStatus = <<"subtests xpassed", "Y", hDescription \o " SUBXPASS">>
\* a classified record is not in a plain category
C7_NotPlain == hStatus # None => hStatus[1] \notin {"subtests passed", "skipped"}

\* C7 as stated: a call-phase subtest record with the marker gets
\* ('subtests xfailed', 'y', '<description> SUBXFAIL') when skipped and
\* ('subtests xpassed', 'Y', '<description> SUBXPASS') when passed, and is
\* never classified 'subtests passed' or 'skipped'.
C7_MarkerTableAlways == (ClassifiedSub /\ HasMarker) => (C7_Table /\ C7_NotPlain)

\* C7, amended: it gets these triples when no_subtests_shortletter is not
\* set; when it is set, the glyph is '' and category and summary line are the
\* same; in both cases it is never classified 'subtests passed' or 'skipped'.
C7_MarkerTable ==
    (ClassifiedSub /\ HasMarker) =>
        /\ ~no_subtests_shortletter => C7_Table
        /\ (no_subtests_shortletter /\ HOutcome = "skipped") =>
              hStatus = <<"subtests xfailed", "", hDescription \o " SUBXFAIL">>
        /\ (no_subtests_shortletter /\ HOutcome = "passed") =>
              hStatus = <<"subtests xpassed", "", hDescription \o " SUBXPASS">>
        /\ C7_NotPlain

C7_Witness ==
    /\ ClassifiedSub
    /\ HasMarker
    /\ ~no_subtests_shortletter
    /\ hStatus = <<"subtests xpassed", "Y", "(<subtest>) SUBXPASS">>

\* C8: the record rebuilt from the transport form of a subtest record is a
\* subtest record that gets the same category, glyph and summary line.
C8_RoundTripSameStatus ==
    (hpc = "reclassified" /\ isinstance(hReport, "SubTestReport")) =>
        /\ isinstance(hRestored, "SubTestReport")
        /\ hRestoredStatus = hStatus

\* the label is None or the empty string
C9_LabelEmpty ==
    \/ hReport.dict["context"].msg = PyNone
    \/ hReport.dict["context"].msg = PyStr("")

\* C9 as stated: the description is not empty, and it is "(<subtest>)"
\* exactly when label and parameters are both empty, an empty-string label
\* included.
C9_PlaceholderIffEmpty ==
    ClassifiedSub =>
        /\ hDescription # ""
        /\ hDescription = "(<subtest>)"
              <=> (C9_LabelEmpty /\ hReport.dict["context"].kwargs = <<>>)

\* C9, amended: the description is not empty, and it is "(<subtest>)"
\* exactly when the label is not a string (None or another object) and the
\* parameter mapping is empty; the empty-string label is rendered "[]".
C9_PlaceholderIffAbsent ==
    ClassifiedSub =>
        /\ hDescription # ""
        /\ hDescription = "(<subtest>)"
              <=> (hReport.dict["context"].msg.type # "str"
                     /\ hReport.dict["context"].kwargs = <<>>)
        /\ (hReport.dict["context"].msg = PyStr("")
              /\ hReport.dict["context"].kwargs = <<>>) => hDescription = "[]"

C9_Witness ==
    /\ ClassifiedSub
    /\ hReport.dict["context"].msg = PyStr("")
    /\ hReport.dict["context"].kwargs = <<>>
    /\ hDescription = "[]"

\* C10: pytest_report_to_serializable returns a mapping exactly for subtest
\* records and None for every other report; pytest_report_from_serializable
\* returns a subtest record exactly when the mapping's "_report_type" is
\* "SubTestReport", and None otherwise, also when the key is missing.
C10_Ownership ==
    /\ hpc \in {"serialized", "received", "reclassified"} =>
          /\ hData # None <=> isinstance(hReport, "SubTestReport")
          /\ hData # None => hData["_report_type"] = "SubTestReport"
    /\ hpc \in {"received", "reclassified"} =>
          /\ hRestored # None <=>
                ("_report_type" \in DOMAIN hWire /\ hWire["_report_type"] = "SubTestReport")
          /\ hRestored # None =>
                (isinstance(hRestored, "SubTestReport") /\ hasattr(hRestored, "context"))
          /\ "_report_type" \notin DOMAIN hWire => hRestored = None

C10_Witness ==
    /\ hpc = "received"
    /\ isinstance(hReport, "TestReport")
    /\ "_report_type" \notin DOMAIN hWire
    /\ "$report_type" \in DOMAIN hWire
    /\ hRestored = None

\* the value is a (category, glyph, summary line) triple
IsTriple(status) == status # None /\ status # Unset /\ Len(status) = 3

\* C11: pytest_report_teststatus returns None for every report that is not a
\* subtest record and for every report whose phase is not "call"; for a
\* call-phase subtest record without the marker and with outcome passed,
\* skipped or failed it returns a triple.
C11_NoneUnlessCallSubtest ==
    hpc # "start" =>
        /\ ~isinstance(hReport, "SubTestReport") => hStatus = None
        /\ hReport.dict["when"] # "call" => hStatus = None
        /\ (ClassifiedSub /\ ~HasMarker /\ HOutcome \in {"passed", "skipped", "failed"})
              => IsTriple(hStatus)

C11_Witness ==
    /\ hpc = "classified"
    /\ isinstance(hReport, "SubTestReport")
    /\ hReport.dict["when"] = "teardown"
    /\ HOutcome = "failed"
    /\ ~HasMarker
    /\ hStatus = None

\* C12: with no_subtests_shortletter set, the glyph of every classified
\* record (passed, skipped, failed, xfailed, xpassed) is the empty string,
\* and category and summary line are those returned without the option; a
\* record the hook declines without the option is declined with it.
C12_OptionOnlyEmptiesGlyph ==
    (ClassifiedSub /\ no_subtests_shortletter) =>
        LET without == pytest_report_teststatus(hReport, FALSE)
        IN  /\ hStatus = None <=> without = None
            /\ hStatus # None =>
                  /\ hStatus[2] = ""
                  /\ without[2] \in {",", "-", "u", "y", "Y"}
                  /\ hStatus[1] = without[1]
                  /\ hStatus[3] = without[3]

C12_Witness ==
    /\ ClassifiedSub
    /\ no_subtests_shortletter
    /\ HasMarker
    /\ hStatus = <<"subtests xfailed", "", "[custom] SUBXFAIL">>

(***************************************************************************)
(* Properties of the collectors, checked under Spec.                       *)
(***************************************************************************)
\* the names of the sections of a report
SectionNames(report) ==
    {report.dict["sections"][i][1] : i \in DOMAIN report.dict["sections"]}
\* the scope may start its own capture
MayCapture == capture \in {"sys", "fd"} /\ ~capture_fixture
OutputSections == {"Captured stdout call", "Captured stderr call"}

\* C13: a scope starts its own capture exactly when --capture is sys or fd
\* and no capsys/capfd fixture is active at entry; otherwise its snapshot
\* stays ('', ''), its record gets no stdout/stderr section, and what the
\* body writes goes where it went before entry: to the user's fixture when
\* there is one.
C13_CaptureOnlyWhenFree ==
    /\ pc = "open" => (cm.fixture # "None" <=> MayCapture)
    /\ last_exit # None =>
          /\ last_exit.fixture # "None" <=> MayCapture
          /\ ~MayCapture =>
                /\ last_exit.captured = [out |-> "", err |-> ""]
                /\ SectionNames(last_exit.report) \cap OutputSections = {}
                /\ last_exit.sink # "scope"
          /\ capture_fixture => last_exit.sink = "capture fixture"

C13_Witness ==
    /\ last_exit # None
    /\ capture = "fd"
    /\ capture_fixture
    /\ last_exit.body.out = "o"
    /\ last_exit.body.err = "e"
    /\ last_exit.captured = [out |-> "", err |-> ""]
    /\ last_exit.sink = "capture fixture"

\* C14: without the host's logging plugin the scope gets the null collector
\* (no handler is attached) and no subtest record has a "Captured log call"
\* section, whatever the body logs and whether it returns or raises.
C14_NoLogSectionWithoutPlugin ==
    ~logging_plugin =>
        /\ pc = "open" => cm.logs = "NullCapturedLogs"
        /\ last_exit # None =>
              /\ last_exit.logs = "NullCapturedLogs"
              /\ "Captured log call" \notin SectionNames(last_exit.report)
              /\ last_report # None => "Captured log call" \notin SectionNames(last_report)

C14_Witness ==
    /\ ~logging_plugin
    /\ last_exit # None
    /\ last_exit.body.log = "l"
    /\ last_exit.exc = "AssertionError"
    /\ last_exit.report = last_report
    /\ "Captured log call" \notin SectionNames(last_report)

(***************************************************************************)
(* Properties of the unittest adapter, checked under SpecUnittest, and of  *)
(* both styles of scope, checked under SpecScopes.                         *)
(***************************************************************************)
\* the subTest scopes whose body skipped, failed, raised into the error channel
SkippedSubTests == {i \in 1..Len(ubodies) : ubodies[i] \in {"SkipTest", "Skipped"}}
FailedSubTests == {i \in 1..Len(ubodies) : ubodies[i] = "AssertionError"}
RaisedSubTests == {i \in 1..Len(ubodies) : ubodies[i] \in {"AssertionError", "Skipped"}}

C16_Once ==
    /\ skip_fired <= 1
    /\ upc \in {"ran", "reported"} => skip_fired = (IF uended = "SkipTest" THEN 1 ELSE 0)
\* on Python < 3.11 it has not run before the record of every failed scope
C16_AfterFailures ==
    (~py311 /\ instance_outcome # None /\ skip_fired > 0) =>
        \A i \in FailedSubTests : urecords[i] = <<"failed">>

C17_InstallReversible ==
    /\ originaladdSkip # "_addSkip"
    /\ originaladdSkip # "absent" => (originaladdSkip = "addSkip" /\ addSkip = "_addSkip")
    /\ (last_hook = "unconfigure" /\ configures > 0) =>
          /\ addSkip = "addSkip"
          /\ originaladdSkip = "absent"
          /\ addSubTest = "absent"
          /\ failfast = "absent"
    /\ configures = 0 =>
          /\ addSkip = "addSkip"
          /\ originaladdSkip = "absent"
          /\ addSubTest = "absent"
          /\ failfast = "absent"
          /\ KNOWN_TYPES = HostKnownTypes
          /\ color_for_type = HostColors

C17_Witness ==
    /\ configures = 2
    /\ unconfigures = 1
    /\ last_hook = "unconfigure"
    /\ addSkip = "addSkip"
    /\ addSubTest = "absent"

(***************************************************************************)
(* Properties of expected failures, checked under SpecXfail.               *)
(***************************************************************************)
\* the status of the record of the last scope that exited
LastStatus == pytest_report_teststatus(last_exit.report, no_subtests_shortletter)
LastDescription == sub_test_description(last_exit.report.dict["context"])
\* the body of the last scope called pytest.xfail(), or raised in a test
\* that is marked xfail
LastXfailRaised ==
    \/ last_exit.exc = "XFailed"
    \/ xfailed # "None" /\ last_exit.exc \in Failures
\* the body of the last scope returned in a test that is marked xfail
LastXfailReturned == xfailed # "None" /\ last_exit.exc = NoExc
\* the test is over and nothing but expected failures happened in it
OnlyExpectedFailures ==
    /\ pc = "reported"
    /\ outside_raised = NoExc
    /\ \A exc \in BagToSet(raised) :
          exc = "XFailed" \/ (xfailed # "None" /\ exc \in Failures \cup {NoExc})
LastIsXfailed ==
    LastStatus = <<"subtests xfailed", "y", LastDescription \o " SUBXFAIL">>
LastIsXpassed ==
    LastStatus = <<"subtests xpassed", "Y", LastDescription \o " SUBXPASS">>

StepsOfExit(interact) ==
    <<"close", "makereport", "attach", "suspend", "logreport", "resume">>
        \o (IF interact THEN <<"interact">> ELSE <<>>)
        \o <<"decide">>

\* C19: on every scope exit the steps occur in the order collectors
\* released, base report made with phase "call", context and sections
\* attached, record dispatched while the host's output suppression is
\* lifted and re-established afterwards, interactive-exception hook if
\* applicable, propagation decision; the record dispatched carries its
\* context and sections, and at dispatch the scope's own capture and log
\* handler are no longer active.
C19_ExitOrder ==
    last_exit # None =>
        /\ last_exit.trace = StepsOfExit(last_exit.interact)
        /\ last_exit.dispatched.after = <<"close", "makereport", "attach", "suspend">>
        /\ last_exit.dispatched.report = last_exit.report
        /\ last_exit.report = ExitReport(last_exit.scope, last_exit.body)
        /\ last_exit.report.dict["when"] = "call"
        /\ "context" \in DOMAIN last_exit.report.dict
        /\ last_exit.report.dict["context"] =
               SubTestContext(last_exit.scope.msg, last_exit.scope.kwargs)
        /\ last_exit.dispatched.exit_stack = <<>>
        /\ "scope" \notin Range(last_exit.dispatched.streams)
        /\ "scope" \notin last_exit.dispatched.handlers
        /\ last_exit.dispatched.suspended = capman
        /\ last_exit.suspended = FALSE
        /\ last_exit.interact =
               check_interactive_exception(make_call_info(last_exit.exc, "call"),
                                           last_exit.report)

\* a scope with its own output capture and log handler has exited on a
\* failure, its output in the record, with the interactive hook called
C19_Witness ==
    /\ last_exit # None
    /\ capman
    /\ last_exit.fixture # "None"
    /\ last_exit.logs = "CapturedLogs"
    /\ last_exit.body.out # ""
    /\ last_exit.interact
    /\ last_exit.dispatched.suspended
    /\ Len(last_exit.report.dict["sections"]) >= 2

\* C20: at the exit of every scope entered, whether its body returned or
\* raised (fail-fast included), the output collector and the log collector
\* started at entry are each released exactly once; afterwards no capture or
\* log handler of the scope is active and the streams and handlers are those
\* in effect before entry.
C20_ReleasedOnce ==
    [][ExitStep =>
          /\ last_exit'.released = <<"capturing_logs", "capturing_output">>
          /\ \A c \in Range(cm.exit_stack) :
                 Cardinality({n \in DOMAIN last_exit'.released :
                                  last_exit'.released[n] = c}) = 1
          /\ streams' = cm.streams_before
          /\ handlers' = cm.handlers_before
          /\ "scope" \notin Range(streams')
          /\ "scope" \notin handlers'
          /\ (cm.fixture # "None" => "scope" \in Range(streams))
          /\ (cm.logs = "CapturedLogs" => "scope" \in handlers)]_vars

\* a scope with both collectors started has exited under fail-fast, its
\* exception propagating, and the streams are those of before entry
C20_Witness ==
    /\ last_exit # None
    /\ pc = "raising"
    /\ ~last_exit.returned
    /\ last_exit.shouldfail
    /\ last_exit.fixture # "None"
    /\ last_exit.logs = "CapturedLogs"
    /\ last_exit.released = <<"capturing_logs", "capturing_output">>
    /\ streams = last_exit.scope.streams_before
    /\ handlers = last_exit.scope.handlers_before


\* ------------------------------------------------------------------
\* C21: a failure of the release of the collectors at scope exit
\* ------------------------------------------------------------------
\* the last scope exit is one whose release of the collectors raised
ReleaseFailed == last_exit # None /\ "release_error" \in DOMAIN last_exit

\* C21: when releasing the capture collectors raises at scope exit and the
\* body raised too, the release error does not leave the scope and a record
\* for the body's exception is dispatched; the release error leaves the
\* scope only when the body raised nothing.
C21_ReleaseErrorNotMasking ==
    ReleaseFailed =>
        IF last_exit.exc # NoExc
        THEN /\ last_exit.dispatched # None
             /\ last_exit.propagated # last_exit.release_error
        ELSE last_exit.propagated = last_exit.release_error

\* what the code does: the release error leaves the scope whatever the body
\* did, and no record is dispatched for the scope
C21_ReleaseErrorPropagates ==
    /\ ReleaseFailed =>
          /\ last_exit.propagated = last_exit.release_error
          /\ last_exit.dispatched = None
          /\ pc = "raising" => cm.exc_info = last_exit.release_error
    /\ AllSubRecords <= Exited

\* the body of a scope failed an assertion, the release raised, and the
\* test's call phase has been reported as failed from the release error
C21_Witness ==
    /\ ReleaseFailed
    /\ last_exit.exc = "AssertionError"
    /\ pc = "done"
    /\ AllSubRecords = 0
    /\ Exited = 1
    /\ TestRecords("failed") = 1


\* ------------------------------------------------------------------
\* C22: the scopes of one test, in time
\* ------------------------------------------------------------------
\* the test function is inside the body of a scope
InScope == pc \in {"open", "nested"}
\* the step is the __exit__ of a scope opened inside another scope
NestedExitStep == pc = "nested" /\ last_exit' # last_exit

\* C22: within one test at most one scope of the fixture is open in every
\* reachable state, and no scope is entered until the scope entered before
\* it has exited and dispatched its record.
C22_AtMostOneOpen ==
    /\ entered - Exited <= 1
    /\ entered - AllSubRecords <= 1

\* C22, amended: the scopes open at one time are those of the nested with
\* statements; the innermost exits first, dispatches its own record at its
\* exit and leaves the enclosing scope open; a scope that is not inside
\* another is entered only after every earlier scope has exited and
\* dispatched its record.
C22_InnermostFirst ==
    /\ [](/\ AllSubRecords = Exited
          /\ InScope => entered - Exited = Depth(cm)
          /\ ~InScope => entered = Exited
          /\ pc = "open" => Depth(cm) = 1)
    /\ [][NestedExitStep =>
            /\ last_exit'.scope = cm
            /\ last_exit'.report.dict["context"] = SubTestContext(cm.msg, cm.kwargs)
            /\ AllSubRecords' = AllSubRecords + 1
            /\ InScope'
            /\ Depth(cm') = Depth(cm) - 1
            /\ [cm' EXCEPT !.exc_info = NoExc] = Outer(cm)]_vars
    /\ [][(pc = "test" /\ pc' = "open") => AllSubRecords = entered]_vars

\* a scope opened inside another has returned and dispatched its record
\* while the enclosing scope is still open
C22_Witness ==
    /\ pc = "open"
    /\ last_exit # None
    /\ Outer(last_exit.scope) = [cm EXCEPT !.exc_info = NoExc]
    /\ entered = 2
    /\ Exited = 1
    /\ AllSubRecords = 1


\* ------------------------------------------------------------------
\* C23: the exception-interaction hook
\* ------------------------------------------------------------------
\* the step dispatches a subtest record
SubDispatchStep == logged' # logged /\ last_report'.cls = "SubTestReport"
\* the positions of a step of __exit__ in the steps the last exit has taken
TracePos(step) == {n \in DOMAIN last_exit.trace : last_exit.trace[n] = step}

AddSubTestStep == urecords' # urecords
\* the outcome the exception info of a callback stands for
OutcomeOf(exc_info) ==
    IF exc_info = None THEN "passed"
    ELSE IF exc_info.exc \in {"SkipTest", "Skipped"} THEN "skipped"
    ELSE "failed"
\* the context of a subTest scope: its label when that is a string, its
\* parameters
ContextOf(test) ==
    SubTestContext(IF test.message.type = "str" THEN test.message ELSE PyNone, test.params)

\* C24: every addSubTest callback delivered to the adapter, with or without
\* exception info, dispatches exactly one subtest record: passed without
\* exception info, skipped for a skip and failed otherwise, of phase "call",
\* with the context made of the scope's label (None unless a string) and
\* parameters.
C24_RecordPerCallback ==
    [][AddSubTestStep =>
          /\ AllSubRecords' = AllSubRecords + 1
          /\ last_report' = last_sub'.report
          /\ last_report'.cls = "SubTestReport"
          /\ last_report'.dict["when"] = "call"
          /\ last_report'.dict["context"] = ContextOf(last_sub'.test)
          /\ last_report'.dict["outcome"] = OutcomeOf(last_sub'.exc_info)]_vars

\* what the code does: one record per callback, of phase "call" and with
\* the scope's context; its outcome is that of the callback's exception
\* info unless the host's makereport found an exception queued for the test
\* in self._excinfo, which it then reports instead
C24_RecordPerCallbackUnlessQueued ==
    [][AddSubTestStep =>
          /\ AllSubRecords' = AllSubRecords + 1
          /\ last_report' = last_sub'.report
          /\ last_report'.cls = "SubTestReport"
          /\ last_report'.dict["when"] = "call"
          /\ last_report'.dict["context"] = ContextOf(last_sub'.test)
          /\ (excinfo = <<>> \/ py311) =>
                 last_report'.dict["outcome"] = OutcomeOf(last_sub'.exc_info)]_vars

\* on Python < 3.11 the callback of a subTest scope that passed has been
\* delivered after the skip of the test itself was queued
C24_Witness ==
    /\ ~py311
    /\ last_sub # None
    /\ last_sub.exc_info = None
    /\ last_sub.report.dict["outcome"] = "skipped"
    /\ uended = "SkipTest"
    /\ skip_fired = 1


\* ------------------------------------------------------------------
\* C25: a marked record that is neither skipped nor passed
\* ------------------------------------------------------------------
\* C25: a call-phase subtest record that has wasxfail and whose outcome is
\* neither skipped nor passed is not classified: the hook returns None,
\* with and without no_subtests_shortletter.
C25_MarkedFailedDeferred ==
    (ClassifiedSub /\ HasMarker /\ HOutcome \notin {"skipped", "passed"}) => hStatus = None

\* the hook has declined a failed record with the marker while the glyph
\* option is set
C25_Witness ==
    /\ ClassifiedSub
    /\ HasMarker
    /\ HOutcome = "failed"
    /\ no_subtests_shortletter
    /\ hStatus = None


\* ------------------------------------------------------------------
\* C26: how the summary phrase is built
\* ------------------------------------------------------------------
\* the context of the report the hooks are applied to
HContext == hReport.dict["context"]
\* the value of parameter k in kwargs
ValueOf(kwargs, k) == (CHOOSE p \in Range(kwargs) : p.k = k).v
\* the parameters of kwargs as "k=v" texts, in ascending key order
InKeyOrder(kwargs) ==
    LET keys == SelectSeq(KeyOrder, LAMBDA k : \E p \in Range(kwargs) : p.k = k)
    IN  [n \in 1..Len(keys) |-> keys[n] \o "=" \o Repr(ValueOf(kwargs, keys[n]))]
\* "(k1=v1, k2=v2)" for one or two parameters
ParamsText(kwargs) ==
    LET kv == InKeyOrder(kwargs)
    IN  IF Len(kv) = 1 THEN "(" \o kv[1] \o ")"
        ELSE IF Len(kv) = 2 THEN "(" \o kv[1] \o ", " \o kv[2] \o ")"
        ELSE "(" \o kv[1] \o ", " \o kv[2] \o ", " \o kv[3] \o ")"

\* C26: the summary phrase is "[label]" when there is a (string) label, then
\* "(k1=v1, k2=v2, ...)" when there are parameters, joined by one space with
\* the label first; the parameters are in ascending key order whatever the
\* order they were given in, so contexts with the same label and the same
\* parameter mapping have the same phrase.
C26_Phrase ==
    ClassifiedSub =>
        LET label == HContext.msg.type = "str"
            params == HContext.kwargs # <<>>
        IN  /\ (label /\ ~params) => hDescription = "[" \o HContext.msg.s \o "]"
            /\ (~label /\ params) => hDescription = ParamsText(HContext.kwargs)
            /\ (label /\ params) =>
                   hDescription = "[" \o HContext.msg.s \o "]" \o " "
                                      \o ParamsText(HContext.kwargs)
            /\ \A other \in Contexts :
                   (other.msg = HContext.msg
                        /\ Range(other.kwargs) = Range(HContext.kwargs))
                     => sub_test_description(other) = hDescription

\* a record whose parameters were given in descending key order has been
\* described
C26_Witness ==
    /\ ClassifiedSub
    /\ HContext.msg = PyStr("custom")
    /\ HContext.kwargs = <<[k |-> "x", v |-> PyStr("s")], [k |-> "a", v |-> PyInt(1)]>>
    /\ hDescription = "[custom] (a=1, x='s')"


\* ------------------------------------------------------------------
\* C27: the transport mapping of a subtest record
\* ------------------------------------------------------------------
\* the stored value is the parameter value, a tuple being stored as the
\* list of its items
StoredAs(stored, v) ==
    IF v.type = "tuple" THEN stored = PyList(v.items) ELSE stored = v

\* C27: the mapping made for a subtest record has "_report_type" with value
\* "SubTestReport" and "_subtest.context" holding exactly "msg" (the label)
\* and "kwargs" (the parameter mapping), and has no "context" key; the record
\* rebuilt from a mapping has the context that the mapping's
\* "_subtest.context" holds and otherwise the mapping's entries, nothing else.
C27_TransportMapping ==
    /\ (hpc \in {"serialized", "received", "reclassified"}
            /\ isinstance(hReport, "SubTestReport")) =>
          /\ hData # None
          /\ "_report_type" \in DOMAIN hData
          /\ hData["_report_type"] = "SubTestReport"
          /\ "_subtest.context" \in DOMAIN hData
          /\ DOMAIN hData["_subtest.context"] = {"msg", "kwargs"}
          /\ hData["_subtest.context"].msg = HContext.msg
          /\ Len(hData["_subtest.context"].kwargs) = Len(HContext.kwargs)
          /\ \A n \in DOMAIN HContext.kwargs :
                 /\ hData["_subtest.context"].kwargs[n].k = HContext.kwargs[n].k
                 /\ StoredAs(hData["_subtest.context"].kwargs[n].v, HContext.kwargs[n].v)
          /\ "context" \notin DOMAIN hData
          /\ DOMAIN hData =
                 (DOMAIN hReport.dict \ {"context"}) \cup {"_report_type", "_subtest.context"}
          /\ \A k \in DOMAIN hReport.dict \ {"context"} : hData[k] = hReport.dict[k]
    /\ (hpc \in {"received", "reclassified"} /\ hRestored # None) =>
          /\ isinstance(hRestored, "SubTestReport")
          /\ hRestored.dict["context"] =
                 SubTestContext(hWire["_subtest.context"].msg,
                                hWire["_subtest.context"].kwargs)
          /\ DOMAIN hRestored.dict = DOMAIN hWire \cup {"context"}
          /\ \A k \in DOMAIN hWire : hRestored.dict[k] = hWire[k]

\* a record with a label, a parameter and the expected-failure marker has
\* been sent and rebuilt, with the context it had
C27_Witness ==
    /\ hpc = "received"
    /\ hRestored # None
    /\ HasMarker
    /\ HContext = SubTestContext(PyStr("custom"), <<[k |-> "i", v |-> PyInt(1)]>>)
    /\ hWire["_subtest.context"] = [msg |-> PyStr("custom"),
                                    kwargs |-> <<[k |-> "i", v |-> PyInt(1)]>>]
    /\ hRestored.dict["context"] = HContext
    /\ hRestored.dict["wasxfail"] = "reason"


\* ------------------------------------------------------------------
\* C28: the known-status table after repeated configure calls
\* ------------------------------------------------------------------
\* how often a type occurs in the known-status table
Occurrences(t) == Cardinality({n \in DOMAIN KNOWN_TYPES : KNOWN_TYPES[n] = t})
\* the step is a pytest_configure call
ConfigureStep == configures' = configures + 1

\* C28: after any number of pytest_configure calls the known-status table
\* holds each category added by the plugin at most once; a configure call
\* after the first leaves the table unchanged.
C28_TypesAddedOnce ==
    /\ [](/\ \A t \in Range(new_types) : Occurrences(t) <= 1
          /\ configures = 0 => KNOWN_TYPES = HostKnownTypes
          /\ configures > 0 => KNOWN_TYPES = HostKnownTypes \o new_types)
    /\ [][(ConfigureStep /\ configures > 0) => KNOWN_TYPES' = KNOWN_TYPES]_vars
    /\ [][(ConfigureStep /\ configures = 0) => KNOWN_TYPES' = KNOWN_TYPES \o new_types]_vars

\* pytest_configure has been called twice with an unconfigure in between,
\* and the table has the new types once
C28_Witness ==
    /\ configures = 2
    /\ unconfigures = 1
    /\ last_hook = "configure"
    /\ Len(KNOWN_TYPES) = Len(HostKnownTypes) + 3
    /\ Occurrences("subtests passed") = 1


\* ------------------------------------------------------------------
\* C29: the context has no part in the outcome
\* ------------------------------------------------------------------
\* category and glyph of a record as the terminal gets them
CategoryAndGlyph(report) ==
    LET res == pytest_report_teststatus(report, no_subtests_shortletter)
    IN  <<TestStatusCategory(report, no_subtests_shortletter),
          IF res = None THEN "host" ELSE res[2]>>
\* a record without its context
WithoutContext(report) == [k \in DOMAIN report.dict \ {"context"} |-> report.dict[k]]
\* contexts of every shape: nothing, a label, the empty label, a label that
\* is not a string, parameters, a label and parameters
OtherContexts ==
    {SubTestContext(PyNone, <<>>),
     SubTestContext(PyStr("other"), <<>>),
     SubTestContext(PyStr(""), <<>>),
     SubTestContext(PyInt(7), <<>>),
     SubTestContext(PyNone, <<[k |-> "x", v |-> PyTuple(<<1, 2>>)]>>),
     SubTestContext(PyStr("custom"),
                    <<[k |-> "x", v |-> PyStr("s")], [k |-> "a", v |-> PyInt(1)]>>)}
\* the exit of the open scope, had it been opened with context c
ExitWith(c, body) ==
    LET scope == [cm EXCEPT !.msg = c.msg, !.kwargs = c.kwargs]
    IN  ExitRun(ExitOrder, ExitStart(scope), scope, body)

\* C29: a scope opened with another label and other parameters, everything
\* else the same, dispatches a record with the same outcome, category and
\* glyph (the same record but for its context, so only the summary phrase
\* differs) and decides the same at exit; the context of the record is the
\* label and the parameters the scope was opened with.
C29_ContextOnlyDisplayed ==
    [][ExitStep =>
          /\ last_exit'.report.dict["context"] = SubTestContext(cm.msg, cm.kwargs)
          /\ \A c \in OtherContexts :
                 LET other == ExitWith(c, last_exit'.body)
                 IN  /\ other.dispatched.report.dict["context"] = c
                     /\ WithoutContext(other.dispatched.report)
                            = WithoutContext(last_exit'.report)
                     /\ CategoryAndGlyph(other.dispatched.report)
                            = CategoryAndGlyph(last_exit'.report)
                     /\ other.returned = last_exit'.returned
                     /\ other.session_shouldfail = last_exit'.shouldfail
                     /\ other.interact = last_exit'.interact
                     /\ other.streams = streams'
                     /\ other.handlers = handlers']_vars

\* a labelled scope with a parameter has failed with the stop request set,
\* and its exception has left the scope
C29_Witness ==
    /\ last_exit # None
    /\ last_exit.scope.msg = PyStr("custom")
    /\ last_exit.report.dict["context"] =
           SubTestContext(PyStr("custom"), <<[k |-> "i", v |-> PyInt(1)]>>)
    /\ last_exit.exc = "AssertionError"
    /\ last_exit.report.dict["outcome"] = "failed"
    /\ ~last_exit.returned


\* ------------------------------------------------------------------
\* C30: the categories of the hook and the tables of the terminal
\* ------------------------------------------------------------------
\* the categories in the "subtests" namespace
NamespacedCategories ==
    {"subtests passed", "subtests failed", "subtests skipped", "subtests xfailed",
     "subtests xpassed"}
\* the hook has classified the record, in a process that is configured
ClassifiedWhenConfigured ==
    /\ hpc = "classified"
    /\ hStatus # None
    /\ last_hook = "configure"

\* C30: every category in the "subtests" namespace that the status hook
\* returns is one that pytest_configure has put in the known-status table
\* and in the colour table.
C30_ReturnedAreRegistered ==
    (ClassifiedWhenConfigured /\ hStatus[1] \in NamespacedCategories) =>
        /\ hStatus[1] \in Range(KNOWN_TYPES)
        /\ hStatus[1] \in DOMAIN color_for_type

\* what the code does: of the namespaced categories the hook returns, only
\* "subtests passed" is registered; "subtests xfailed" and "subtests xpassed"
\* are in neither table, while "subtests failed" and "subtests skipped" are
\* registered (the latter without a colour) and never returned
C30_OnlyPassedRegistered ==
    /\ ClassifiedWhenConfigured =>
          /\ hStatus[1] \in {"subtests passed", "subtests xfailed", "subtests xpassed",
                             "failed", "skipped"}
          /\ hStatus[1] = "subtests passed" =>
                 (hStatus[1] \in Range(KNOWN_TYPES) /\ color_for_type[hStatus[1]] = "green")
          /\ hStatus[1] \in {"subtests xfailed", "subtests xpassed"} =>
                 (hStatus[1] \notin Range(KNOWN_TYPES)
                      /\ hStatus[1] \notin DOMAIN color_for_type)
    /\ configures > 0 =>
          /\ Range(KNOWN_TYPES) \cap NamespacedCategories = Range(new_types)
          /\ DOMAIN color_for_type \cap NamespacedCategories
                 = {"subtests passed", "subtests failed"}

\* a skipped record with the expected-failure marker has been classified in
\* a configured process
C30_Witness ==
    /\ ClassifiedWhenConfigured
    /\ hStatus[1] = "subtests xfailed"
    /\ "subtests xfailed" \notin Range(KNOWN_TYPES)


\* ------------------------------------------------------------------
\* C31: the interception while sessions are nested
\* ------------------------------------------------------------------
\* some session that called pytest_configure has not called
\* pytest_unconfigure yet
SessionOpen == configures > unconfigures

\* C31: the interception (addSubTest and the replacement addSkip) is
\* installed for as long as some session that called pytest_configure has
\* not called pytest_unconfigure, also after configure, configure,
\* unconfigure.
C31_InstalledWhileSessionOpen == SessionOpen => Installed

\* what the code does: the interception is installed from a
\* pytest_configure call to the next pytest_unconfigure call, whichever
\* session makes it
C31_InstalledUntilNextUnconfigure ==
    /\ last_hook = "configure" => Installed
    /\ last_hook # "configure" =>
          (addSkip = "addSkip" /\ addSubTest = "absent" /\ failfast = "absent"
               /\ originaladdSkip = "absent")

\* after configure, configure, unconfigure the outer session is still open
\* and the interception is gone
C31_Witness ==
    /\ configures = 2
    /\ unconfigures = 1
    /\ last_hook = "unconfigure"
    /\ SessionOpen
    /\ ~Installed


(***************************************************************************)
(* The same test when its bodies write to any of stdout, stderr and the    *)
(* log, to see every combination of sections.                              *)
(***************************************************************************)
\* bodies that write to every subset of stdout, stderr and the log before
\* they return or fail an assertion
SectionBodies ==
    {Body(exc, out, err, log) : exc \in {NoExc, "AssertionError"},
                                out \in {"", "o"}, err \in {"", "e"}, log \in {"", "l"}}

\* The test of Spec in a session without --maxfail.
InitSections ==
    /\ Init
    /\ maxfail = 0

NextSections ==
    \/ Setup
    \/ \E c \in ScopeContexts : Enter(c.msg, c.kwargs)
    \/ \E body \in SectionBodies : Exit(body)
    \/ \E exc \in {"AssertionError", "Skipped"} : OuterRaise(exc)
    \/ CallRaised
    \/ CallReturned
    \/ Teardown

SpecSections == InitSections /\ [][NextSections]_vars

\* ------------------------------------------------------------------
\* C32: the sections of a fixture-scope record
\* ------------------------------------------------------------------
SectionRank == [n \in OutputSections \cup {"Captured log call"} |->
                   CASE n = "Captured stdout call" -> 1
                     [] n = "Captured stderr call" -> 2
                     [] n = "Captured log call" -> 3]
\* the positions of the sections of a report that are named name
SectionsNamed(report, name) ==
    {i \in DOMAIN report.dict["sections"] : report.dict["sections"][i][1] = name}

\* C32: the sections of a fixture-scope record come in the order stdout,
\* stderr, log; a stdout or stderr section is there only when its captured
\* text is non-empty (and then holds that text), whereas with the logging
\* plugin every record gets exactly one "Captured log call" section, after
\* the output sections, also when the body logged nothing (empty text).
C32_SectionsInOrder ==
    last_exit # None =>
        LET sections == last_exit.report.dict["sections"]
            names == [i \in DOMAIN sections |-> sections[i][1]]
            sub_report == last_exit.report
        IN  /\ \A i \in DOMAIN names : names[i] \in DOMAIN SectionRank
            /\ \A i, j \in DOMAIN names :
                  i < j => SectionRank[names[i]] < SectionRank[names[j]]
            /\ \A i \in SectionsNamed(sub_report, "Captured stdout call") :
                  sections[i][2] # "" /\ sections[i][2] = last_exit.captured.out
            /\ \A i \in SectionsNamed(sub_report, "Captured stderr call") :
                  sections[i][2] # "" /\ sections[i][2] = last_exit.captured.err
            /\ last_exit.captured.out # "" =>
                  SectionsNamed(sub_report, "Captured stdout call") # {}
            /\ last_exit.captured.err # "" =>
                  SectionsNamed(sub_report, "Captured stderr call") # {}
            /\ logging_plugin =>
                  /\ Cardinality(SectionsNamed(sub_report, "Captured log call")) = 1
                  /\ names[Len(names)] = "Captured log call"
                  /\ sections[Len(sections)][2] = last_exit.body.log
            /\ last_exit.dispatched.report.dict["sections"] = sections

\* a body wrote to stderr only and logged nothing: its record has the stderr
\* section and then a log section with empty text
C32_Witness ==
    /\ last_exit # None
    /\ logging_plugin
    /\ last_exit.fixture # "None"
    /\ last_exit.body.out = ""
    /\ last_exit.body.err = "e"
    /\ last_exit.body.log = ""
    /\ last_exit.report.dict["sections"] =
          <<<<"Captured stderr call", "e">>, <<"Captured log call", "">>>>
    /\ last_report = last_exit.report


\* ------------------------------------------------------------------
\* C33: the propagation decision and the stop-after-M-failures threshold
\* ------------------------------------------------------------------
\* number of exited scopes whose body failed
FailedScopes == RaisedCount("AssertionError") + RaisedCount("RuntimeError")
\* the exception of the last scope went on out of __exit__
Propagated == last_exit # None /\ ~last_exit.returned
\* the failures the session had counted before this test
SessionFailuresBefore ==
    testsfailed - SubRecords("failed", FALSE) - TestRecords("failed")

\* the decision of the last exit: taken after the dispatch of the scope's
\* record, from the exception and session.shouldfail as the dispatch left it
DecidedAfterDispatch ==
    last_exit # None =>
        /\ \A i \in TracePos("logreport"), j \in TracePos("decide") : i < j
        /\ TracePos("logreport") # {} /\ TracePos("decide") # {}
        /\ last_exit.returned <=> ~(last_exit.exc # NoExc /\ last_exit.shouldfail)
        /\ last_exit.exc = NoExc => last_exit.returned

\* with the threshold M = maxfail and failures counted before the test, the
\* failing scopes short of the threshold are suppressed and the one that
\* reaches it propagates; then no later scope is entered and the test is
\* reported failed from that exception
ThresholdAfter(before) ==
    /\ (maxfail = 0 /\ last_exit # None) => last_exit.returned
    /\ (maxfail > 0 /\ last_exit # None) =>
          /\ before + FailedScopes < maxfail => last_exit.returned
          /\ before + FailedScopes = maxfail => Propagated
          /\ Propagated =>
                /\ last_exit.exc \in Failures
                /\ SubRecords("failed", FALSE) = maxfail - before
                /\ FailedScopes = maxfail - before
                /\ entered = Exited
                /\ AllSubRecords = entered
                /\ pc \in {"raising", "done", "reported"}
                /\ pc = "raising" => cm.exc_info = last_exit.exc
                /\ pc \in {"done", "reported"} => TestRecords("failed") = 1

\* an __exit__ call decides from session.shouldfail as the dispatch of its
\* own record leaves it
DecidesOnDispatched ==
    ExitStep =>
        /\ shouldfail' = ShouldFailAfter(shouldfail, testsfailed, last_exit'.report, maxfail)
        /\ last_exit'.shouldfail = shouldfail'
        /\ last_exit'.returned <=> ~(last_exit'.exc # NoExc /\ shouldfail')
        /\ pc' = (IF last_exit'.returned THEN "test" ELSE "raising")

\* C33 as stated: the propagation decision at scope exit is taken after the
\* scope's own record has been dispatched and depends only on (an exception
\* was raised, session.shouldfail at that moment); a scope that raised
\* nothing never propagates; with a stop-after-M-failures threshold the
\* first M-1 failing scopes are suppressed and the M-th failing scope's
\* exception propagates, so exactly M failed subtest records are produced, no
\* later scope is entered, and the enclosing test is then reported failed
\* with that same exception.
C33_ThresholdPerTest ==
    /\ [](DecidedAfterDispatch /\ ThresholdAfter(0))
    /\ [][DecidesOnDispatched]_vars

\* C33, amended: the threshold is the session's; the failures the session
\* counted before the test are part of the M, so the failing scope that
\* brings session.testsfailed to M propagates: with F earlier failures the
\* first M-1-F failing scopes are suppressed and exactly M-F failed subtest
\* records are produced.
C33_ThresholdOfSession ==
    /\ [](DecidedAfterDispatch /\ ThresholdAfter(SessionFailuresBefore))
    /\ [][DecidesOnDispatched]_vars
    /\ [][SessionFailuresBefore' = SessionFailuresBefore]_vars

\* with --maxfail=2 and an earlier failure in the session the first failing
\* scope of the test propagates, after a scope that passed; the test is
\* reported failed
C33_Witness ==
    /\ maxfail = 2
    /\ SessionFailuresBefore = 1
    /\ Propagated
    /\ RaisedCount(NoExc) = 1
    /\ FailedScopes = 1
    /\ SubRecords("failed", FALSE) = 1
    /\ entered = 2
    /\ pc = "reported"
    /\ TestRecords("failed") = 1

\* with --maxfail=2 in a session without earlier failures the first failing
\* scope is suppressed and the second propagates
C33_WitnessFromZero ==
    /\ maxfail = 2
    /\ SessionFailuresBefore = 0
    /\ Propagated
    /\ FailedScopes = 2
    /\ SubRecords("failed", FALSE) = 2
    /\ pc = "reported"

====
